---- MODULE Spec2Model ----
(***************************************************************************)
(* A model of the MOS 6502 interpreter of src/src/cpu.rs and               *)
(* src/src/cpu/opcodes.rs: the CPU structure, its memory, the opcode       *)
(* table, the addressing-mode resolver, the instruction handlers and the   *)
(* fetch loop, together with the host calls of the public interface.       *)
(*                                                                         *)
(* A panic of the Rust code is a value: every operation that can panic     *)
(* yields the CPU as the panic left it (the fields already assigned stay   *)
(* assigned) with the field panic set, and nothing runs after it.          *)
(***************************************************************************)
EXTENDS Integers, Sequences, FiniteSets, TLC

VARIABLES
    accumulator,      \* CPU.accumulator: u8
    status,           \* CPU.status.status: u8
    program_counter,  \* CPU.program_counter: u16
    stack_pointer,    \* CPU.stack_pointer: u16
    register_x,       \* CPU.register_x: u8
    register_y,       \* CPU.register_y: u8
    memory,           \* CPU.memory, the non-zero cells only (see Cell)
    phase,            \* where the host is: "idle", "running", "halted", "panicked"
    called,           \* the public operation the host called last
    panic,            \* the panic that ended the run, NoPanic if none
    steps,            \* iterations of the loop of run_with_callback so far
    loaded,           \* the program the host passed to load last, <<>> if none
    callback,         \* the callback the host passed to run_with_callback
    callbacks,        \* invocations of the callback so far
    word,             \* the host's 16-bit accesses: the last address, the
                      \* last data written, the last value returned
    build             \* the build's overflow checks: "debug" (an overflow panics),
                      \* "release" (it wraps), "any" while no overflow has shown which

vars == <<accumulator, status, program_counter, stack_pointer, register_x,
          register_y, memory, phase, called, panic, steps, loaded, callback,
          callbacks, word, build>>

----------------------------------------------------------------------------
(* Widths and bit operations of u8 and u16.                                *)

RECURSIVE BitAnd(_, _)
BitAnd(a, b) ==
    IF a = 0 \/ b = 0 THEN 0
    ELSE (a % 2) * (b % 2) + 2 * BitAnd(a \div 2, b \div 2)

RECURSIVE BitOr(_, _)
BitOr(a, b) ==
    IF a = 0 THEN b
    ELSE IF b = 0 THEN a
    ELSE (IF a % 2 = 1 \/ b % 2 = 1 THEN 1 ELSE 0) + 2 * BitOr(a \div 2, b \div 2)

RECURSIVE BitXor(_, _)
BitXor(a, b) ==
    IF a = 0 THEN b
    ELSE IF b = 0 THEN a
    ELSE ((a + b) % 2) + 2 * BitXor(a \div 2, b \div 2)

\* !x of a u8
BitNot8(a) == 255 - a

----------------------------------------------------------------------------
(* Panics.                                                                 *)

NoPanic == <<"none", 0>>
UnknownOpcode(code) == <<"Unknown opcode", code>>
MemoryIndexOutOfBounds(index) == <<"memory: index out of bounds", index>>
TableIndexOutOfBounds(index) == <<"opcode_table: index out of bounds", index>>
StackOverflow == <<"Stack overflow", 0>>
ReadFromEmptyStack == <<"Read from empty stack", 0>>
WrongAddressingMode == <<"Wrong addressing mode!", 0>>
AddOverflow == <<"attempt to add with overflow", 0>>
SubtractOverflow == <<"attempt to subtract with overflow", 0>>

Throw(c, p) == [c EXCEPT !.panic = p]
Ok(c) == c.panic = NoPanic

\* An arithmetic operation of the CPU overflowed: it panics in a build with
\* overflow checks (c.overflow_checks) and wraps in one without, and the
\* outcome shows which build this is.
Overflowed(c) == [c EXCEPT !.overflowed = TRUE]

\* The value of a computation that may panic.
Return(v) == [panic |-> NoPanic, value |-> v]
Raise(p) == [panic |-> p, value |-> 0]
Bind(r, F(_)) == IF r.panic # NoPanic THEN r ELSE F(r.value)

\* The CPU c goes on with F unless it has panicked.
Then(c, F(_)) == IF Ok(c) THEN F(c) ELSE c

\* The CPU c goes on with the value of r, or panics as r did.
Unwrap(c, r, F(_)) == IF r.panic # NoPanic THEN Throw(c, r.panic) ELSE F(r.value)

\* The CPU c goes on with the result n of an arithmetic operation on
\* integers below width: out of range, n panics with p in a build with
\* overflow checks and wraps in one without.
Arith(c, n, width, p, F(_, _)) ==
    IF 0 <= n /\ n < width THEN F(c, n)
    ELSE IF c.overflow_checks THEN Throw(Overflowed(c), p)
    ELSE F(Overflowed(c), n % width)

----------------------------------------------------------------------------
(* Status register.                                                        *)

CARRY == 1
ZERO == 2
INTERRUPT_DISABLE == 4
DECIMAL_MODE == 8
BREAK == 16
BREAK2 == 32
OVERFLOW == 64
NEGATIV == 128

Status_set(s, flag) == BitOr(s, flag)
Status_reset(s, flag) == BitAnd(s, BitNot8(flag))
Status_insert(s, data) == data
Status_contains(s, flag) == BitAnd(s, flag) # 0

\* if on { status.set(flag) } else { status.reset(flag) }
SetFlag(s, flag, on) == IF on THEN Status_set(s, flag) ELSE Status_reset(s, flag)

----------------------------------------------------------------------------
(* Memory: the array [u8; 0xFFFF], all zero at construction.  The variable *)
(* holds the cells that are not zero; every other index below MemorySize   *)
(* holds 0.  An index of MemorySize or more is out of bounds.              *)

MemorySize == \hFFFF
OpcodeTableSize == \hFF

EmptyMemory == [a \in {} |-> 0]

Cell(m, a) == IF a \in DOMAIN m THEN m[a] ELSE 0

Store(m, a, v) ==
    IF v = 0 THEN [x \in DOMAIN m \ {a} |-> m[x]]
    ELSE [x \in DOMAIN m \cup {a} |-> IF x = a THEN v ELSE m[x]]

mem_read(c, address) ==
    IF address < MemorySize THEN Return(Cell(c.memory, address))
    ELSE Raise(MemoryIndexOutOfBounds(address))

mem_write(c, address, data) ==
    IF address < MemorySize
    THEN [c EXCEPT !.memory = Store(c.memory, address, data)]
    ELSE Throw(c, MemoryIndexOutOfBounds(address))

\* position + 1 cannot overflow: the read at position = 0xFFFF panics first.
mem_read_u16(c, position) ==
    Bind(mem_read(c, position), LAMBDA lo:
    Bind(mem_read(c, position + 1), LAMBDA hi:
    Return(hi * 256 + lo)))

mem_write_u16(c, address, data) ==
    Then(mem_write(c, address, data % 256), LAMBDA c1:
    mem_write(c1, address + 1, data \div 256))

----------------------------------------------------------------------------
(* Opcode table.                                                           *)

Opcode_new(code, mnemonic, length, cycles, mode) ==
    [code |-> code, mnemonic |-> mnemonic, length |-> length,
     cycles |-> cycles, mode |-> mode]

Opcode_basic == Opcode_new(\h02, "NUL", 0, 0, "Immediate")

\* The assignments opcode_table[code] = Opcode::new(code, ...), in order.
OpcodeEntries ==
    {
      <<\h69, "ADC", 2, 2, "Immediate">>, <<\h65, "ADC", 2, 3, "ZeroPage">>,
      <<\h75, "ADC", 2, 4, "ZeroPage_X">>, <<\h6D, "ADC", 3, 4, "Absolute">>,
      <<\h7D, "ADC", 3, 4, "Absolute_X">>, <<\h79, "ADC", 3, 4, "Absolute_Y">>,
      <<\h61, "ADC", 2, 6, "Indirect_X">>, <<\h71, "ADC", 2, 5, "Indirect_Y">>,
      <<\h29, "AND", 2, 2, "Immediate">>, <<\h25, "AND", 2, 3, "ZeroPage">>,
      <<\h35, "AND", 2, 4, "ZeroPage_X">>, <<\h2D, "AND", 3, 4, "Absolute">>,
      <<\h3D, "AND", 3, 4, "Absolute_X">>, <<\h39, "AND", 3, 4, "Absolute_Y">>,
      <<\h21, "AND", 2, 6, "Indirect_X">>, <<\h31, "AND", 2, 5, "Indirect_Y">>,
      <<\h0A, "ASL", 1, 2, "None">>, <<\h06, "ASL", 2, 5, "ZeroPage">>,
      <<\h16, "ASL", 2, 6, "ZeroPage_X">>, <<\h0E, "ASL", 1, 6, "Absolute">>,
      <<\h1E, "ASL", 1, 7, "Absolute_X">>, <<\h00, "BRK", 1, 7, "None">>,
      <<\h18, "CLC", 1, 2, "None">>, <<\hD8, "CLD", 1, 2, "None">>,
      <<\h58, "CLI", 1, 2, "None">>, <<\hB8, "CLV", 1, 2, "None">>,
      <<\hC9, "CMP", 2, 2, "Immediate">>, <<\hC5, "CMP", 2, 3, "ZeroPage">>,
      <<\hD5, "CMP", 2, 4, "ZeroPage_X">>, <<\hCD, "CMP", 3, 4, "Absolute">>,
      <<\hDD, "CMP", 3, 4, "Absolute_X">>, <<\hD9, "CMP", 3, 4, "Absolute_Y">>,
      <<\hC1, "CMP", 2, 6, "Indirect_X">>, <<\hD1, "CMP", 2, 5, "Indirect_Y">>,
      <<\hE0, "CPX", 2, 2, "Immediate">>, <<\hE4, "CPX", 2, 3, "ZeroPage">>,
      <<\hEC, "CPX", 3, 4, "Absolute">>, <<\hC0, "CPY", 2, 2, "Immediate">>,
      <<\hC4, "CPY", 2, 3, "ZeroPage">>, <<\hCC, "CPY", 3, 4, "Absolute">>,
      <<\hC6, "DEC", 2, 5, "ZeroPage">>, <<\hD6, "DEC", 2, 6, "ZeroPage_X">>,
      <<\hCE, "DEC", 3, 6, "Absolute">>, <<\hDE, "DEC", 3, 7, "Absolute_X">>,
      <<\hCA, "DEX", 1, 2, "None">>, <<\h88, "DEY", 1, 2, "None">>,
      <<\h49, "EOR", 2, 2, "Immediate">>, <<\h45, "EOR", 2, 3, "ZeroPage">>,
      <<\h55, "EOR", 2, 4, "ZeroPage_X">>, <<\h4D, "EOR", 3, 4, "Absolute">>,
      <<\h5D, "EOR", 3, 4, "Absolute_X">>, <<\h59, "EOR", 3, 4, "Absolute_Y">>,
      <<\h41, "EOR", 2, 6, "Indirect_X">>, <<\h51, "EOR", 2, 5, "Indirect_Y">>,
      <<\hE6, "INC", 2, 5, "ZeroPage">>, <<\hF6, "INC", 2, 6, "ZeroPage_X">>,
      <<\hEE, "INC", 3, 6, "Absolute">>, <<\hFE, "INC", 3, 7, "Absolute_X">>,
      <<\hE8, "INX", 1, 2, "None">>, <<\hC8, "INY", 1, 2, "None">>,
      <<\hA9, "LDA", 2, 2, "Immediate">>, <<\hA5, "LDA", 2, 3, "ZeroPage">>,
      <<\hB5, "LDA", 2, 4, "ZeroPage_X">>, <<\hAD, "LDA", 3, 4, "Absolute">>,
      <<\hBD, "LDA", 3, 4, "Absolute_X">>, <<\hB9, "LDA", 3, 4, "Absolute_Y">>,
      <<\hA1, "LDA", 2, 6, "Indirect_X">>, <<\hB1, "LDA", 2, 5, "Indirect_Y">>,
      <<\hA2, "LDX", 2, 2, "Immediate">>, <<\hA6, "LDX", 2, 3, "ZeroPage">>,
      <<\hB6, "LDX", 2, 4, "ZeroPage_X">>, <<\hAE, "LDX", 3, 4, "Absolute">>,
      <<\hBE, "LDX", 3, 4, "Absolute_Y">>, <<\hA0, "LDY", 2, 2, "Immediate">>,
      <<\hA4, "LDY", 2, 3, "ZeroPage">>, <<\hB4, "LDY", 2, 4, "ZeroPage_X">>,
      <<\hAC, "LDY", 3, 4, "Absolute">>, <<\hBC, "LDY", 3, 4, "Absolute_Y">>,
      <<\h4A, "LSR", 1, 2, "None">>, <<\h46, "LSR", 2, 5, "ZeroPage">>,
      <<\h56, "LSR", 2, 6, "ZeroPage_X">>, <<\h4E, "LSR", 3, 6, "Absolute">>,
      <<\h5E, "LSR", 3, 7, "Absolute_X">>, <<\hEA, "NOP", 1, 2, "None">>,
      <<\h09, "ORA", 2, 2, "Immediate">>, <<\h05, "ORA", 2, 3, "ZeroPage">>,
      <<\h15, "ORA", 2, 4, "ZeroPage_X">>, <<\h0D, "ORA", 3, 4, "Absolute">>,
      <<\h1D, "ORA", 3, 4, "Absolute_X">>, <<\h19, "ORA", 3, 4, "Absolute_Y">>,
      <<\h01, "ORA", 2, 6, "Indirect_X">>, <<\h11, "ORA", 2, 5, "Indirect_Y">>,
      <<\h48, "PHA", 1, 3, "None">>, <<\h08, "PHP", 1, 3, "None">>,
      <<\h68, "PLA", 1, 4, "None">>, <<\h28, "PLP", 1, 4, "None">>,
      <<\h2A, "ROL", 1, 2, "None">>, <<\h26, "ROL", 2, 5, "ZeroPage">>,
      <<\h36, "ROL", 2, 6, "ZeroPage_X">>, <<\h2E, "ROL", 3, 6, "Absolute">>,
      <<\h3E, "ROL", 3, 7, "Absolute_X">>, <<\h6A, "ROR", 1, 2, "None">>,
      <<\h66, "ROR", 2, 5, "ZeroPage">>, <<\h76, "ROR", 2, 6, "ZeroPage_X">>,
      <<\h6E, "ROR", 3, 6, "Absolute">>, <<\h7E, "ROR", 3, 7, "Absolute_X">>,
      <<\hE9, "SBC", 2, 2, "Immediate">>, <<\hE5, "SBC", 2, 3, "ZeroPage">>,
      <<\hF5, "SBC", 2, 4, "ZeroPage_X">>, <<\hED, "SBC", 3, 4, "Absolute">>,
      <<\hFD, "SBC", 3, 4, "Absolute_X">>, <<\hF9, "SBC", 3, 4, "Absolute_Y">>,
      <<\hE1, "SBC", 2, 6, "Indirect_X">>, <<\hF1, "SBC", 2, 5, "Indirect_Y">>,
      <<\h38, "SEC", 1, 2, "None">>, <<\hF8, "SED", 1, 2, "None">>,
      <<\h78, "SEI", 1, 2, "None">>, <<\h85, "STA", 2, 3, "ZeroPage">>,
      <<\h95, "STA", 2, 4, "ZeroPage_X">>, <<\h8D, "STA", 3, 4, "Absolute">>,
      <<\h9D, "STA", 3, 5, "Absolute_X">>, <<\h99, "STA", 3, 5, "Absolute_Y">>,
      <<\h81, "STA", 2, 6, "Indirect_X">>, <<\h91, "STA", 2, 6, "Indirect_Y">>,
      <<\h86, "STX", 2, 3, "ZeroPage">>, <<\h96, "STX", 2, 4, "ZeroPage_X">>,
      <<\h8E, "STX", 3, 4, "Absolute">>, <<\h84, "STY", 2, 3, "ZeroPage">>,
      <<\h94, "STY", 2, 4, "ZeroPage_X">>, <<\h8C, "STY", 3, 4, "Absolute">>,
      <<\hAA, "TAX", 1, 2, "None">>, <<\hA8, "TAY", 1, 2, "None">>,
      <<\hBA, "TSX", 1, 2, "None">>, <<\h8A, "TXA", 1, 2, "None">>,
      <<\h9A, "TXS", 1, 2, "None">>, <<\h98, "TYA", 1, 2, "None">>
    }

create_opcode_table ==
    [i \in 0..(OpcodeTableSize - 1) |->
        IF \E e \in OpcodeEntries : e[1] = i
        THEN LET e == CHOOSE e \in OpcodeEntries : e[1] = i
             IN  Opcode_new(e[1], e[2], e[3], e[4], e[5])
        ELSE Opcode_basic]

opcode_table == create_opcode_table

----------------------------------------------------------------------------
(* Addressing-mode resolver.  program_counter points at the operand.       *)

\* get_operand_address with the high byte of the Indirect_X pointer read
\* at ptr + 1 without the wrap in the zero page
get_operand_address_unwrapped(c, mode) ==
    CASE mode = "Immediate" -> Return(c.program_counter)
      [] mode = "ZeroPage" -> mem_read(c, c.program_counter)
      [] mode = "ZeroPage_X" ->
            Bind(mem_read(c, c.program_counter), LAMBDA position:
            Return((position + c.register_x) % 256))
      [] mode = "Absolute" -> mem_read_u16(c, c.program_counter)
      [] mode = "Absolute_X" ->
            Bind(mem_read_u16(c, c.program_counter), LAMBDA base:
            Return((base + c.register_x) % 65536))
      [] mode = "Absolute_Y" ->
            Bind(mem_read_u16(c, c.program_counter), LAMBDA base:
            Return((base + c.register_y) % 65536))
      [] mode = "Indirect_X" ->
            Bind(mem_read(c, c.program_counter), LAMBDA base:
            Bind(mem_read(c, (base + c.register_x) % 256), LAMBDA lo:
            Bind(mem_read(c, ((base + c.register_x) % 256) + 1), LAMBDA hi:
            Return(hi * 256 + lo))))
      [] mode = "Indirect_Y" ->
            Bind(mem_read(c, c.program_counter), LAMBDA base:
            Bind(mem_read(c, base), LAMBDA lo:
            Bind(mem_read(c, (base + 1) % 256), LAMBDA hi:
            Return((hi * 256 + lo + c.register_y) % 65536))))
      [] mode = "None" -> Raise(WrongAddressingMode)

get_operand_address(c, mode) ==
    CASE mode = "Immediate" -> Return(c.program_counter)
      [] mode = "ZeroPage" -> mem_read(c, c.program_counter)
      [] mode = "ZeroPage_X" ->
            Bind(mem_read(c, c.program_counter), LAMBDA position:
            Return((position + c.register_x) % 256))
      [] mode = "Absolute" -> mem_read_u16(c, c.program_counter)
      [] mode = "Absolute_X" ->
            Bind(mem_read_u16(c, c.program_counter), LAMBDA base:
            Return((base + c.register_x) % 65536))
      [] mode = "Absolute_Y" ->
            Bind(mem_read_u16(c, c.program_counter), LAMBDA base:
            Return((base + c.register_y) % 65536))
      [] mode = "Indirect_X" ->
            Bind(mem_read(c, c.program_counter), LAMBDA base:
            Bind(mem_read(c, (base + c.register_x) % 256), LAMBDA lo:
            Bind(mem_read(c, (((base + c.register_x) % 256) + 1) % 256), LAMBDA hi:
            Return(hi * 256 + lo))))
      [] mode = "Indirect_Y" ->
            Bind(mem_read(c, c.program_counter), LAMBDA base:
            Bind(mem_read(c, base), LAMBDA lo:
            Bind(mem_read(c, (base + 1) % 256), LAMBDA hi:
            Return((hi * 256 + lo + c.register_y) % 65536))))
      [] mode = "None" -> Raise(WrongAddressingMode)

\* let address = self.get_operand_address(opcode.mode);
\* let value = self.mem_read(address);
read_operand(c, mode) ==
    Bind(get_operand_address(c, mode), LAMBDA address:
    Bind(mem_read(c, address), LAMBDA value:
    Return([address |-> address, value |-> value])))

\* accumulator_or_operand without the test of the mode
operand_in_every_mode(c, mode) == read_operand(c, mode)

\* The operand of a shift or rotate: the accumulator in mode None.
accumulator_or_operand(c, mode) ==
    IF mode = "None" THEN Return([address |-> 0, value |-> c.accumulator])
    ELSE read_operand(c, mode)

\* self.program_counter += step as u16 - 1: a checked subtraction, then a
\* checked addition.
increment_program_counter(c, step) ==
    Arith(c, step - 1, 65536, SubtractOverflow, LAMBDA c1, d:
    Arith(c1, c1.program_counter + d, 65536, AddOverflow, LAMBDA c2, pc:
    [c2 EXCEPT !.program_counter = pc]))

stack_check(c, bad, p) == IF bad THEN Throw(c, p) ELSE c

\* push with the test stack_pointer <= 0x0100
push_off_by_one(c, data) ==
    Then(mem_write(c, c.stack_pointer, data), LAMBDA c1:
    Arith(c1, c1.stack_pointer - 1, 65536, SubtractOverflow, LAMBDA c2, sp:
    stack_check([c2 EXCEPT !.stack_pointer = sp], sp <= \h0100, StackOverflow)))

\* push with the stack pointer decremented before the write
push_after_decrement(c, data) ==
    Arith(c, c.stack_pointer - 1, 65536, SubtractOverflow, LAMBDA c1, sp:
    Then(stack_check([c1 EXCEPT !.stack_pointer = sp], sp < \h0100, StackOverflow),
         LAMBDA c2:
    mem_write(c2, c2.stack_pointer, data)))

push(c, data) ==
    Then(mem_write(c, c.stack_pointer, data), LAMBDA c1:
    Arith(c1, c1.stack_pointer - 1, 65536, SubtractOverflow, LAMBDA c2, sp:
    stack_check([c2 EXCEPT !.stack_pointer = sp], sp < \h0100, StackOverflow)))

\* pop reading the cell before the stack pointer is incremented
pop_before_increment(c) ==
    Unwrap(c, mem_read(c, c.stack_pointer), LAMBDA data:
    Arith(c, c.stack_pointer + 1, 65536, AddOverflow, LAMBDA c1, sp:
    Then(stack_check([c1 EXCEPT !.stack_pointer = sp], sp > \h01ff, ReadFromEmptyStack),
         LAMBDA c2:
    [c2 EXCEPT !.data = data])))

\* The byte pop returns is the CPU's data.
pop(c) ==
    Arith(c, c.stack_pointer + 1, 65536, AddOverflow, LAMBDA c1, sp:
    Then(stack_check([c1 EXCEPT !.stack_pointer = sp], sp > \h01ff, ReadFromEmptyStack),
         LAMBDA c2:
    Unwrap(c2, mem_read(c2, c2.stack_pointer), LAMBDA data:
    [c2 EXCEPT !.data = data])))

\* The negative flag taken from bit 6 (the mask 0b0100_0000)
update_flags_bit_6(c, result) ==
    [c EXCEPT !.status =
        SetFlag(SetFlag(c.status, ZERO, result = 0),
                NEGATIV, BitAnd(result, 64) # 0)]

update_zero_and_negative_flags(c, result) ==
    [c EXCEPT !.status =
        SetFlag(SetFlag(c.status, ZERO, result = 0),
                NEGATIV, BitAnd(result, 128) # 0)]

\* self.update_zero_and_negative_flags(self.<register>)
nz_accumulator(c) == update_zero_and_negative_flags(c, c.accumulator)
nz_register_x(c) == update_zero_and_negative_flags(c, c.register_x)
nz_register_y(c) == update_zero_and_negative_flags(c, c.register_y)

\* add_to_accumulator with the carry flag left out of the sum
add_without_carry(c, data) ==
    LET sum == c.accumulator + data
        result == sum % 256
    IN  [c EXCEPT
            !.status =
                SetFlag(SetFlag(c.status, CARRY, sum > 255), OVERFLOW,
                        BitAnd(BitAnd(BitXor(data, result),
                                      BitXor(result, c.accumulator)), 128) # 0),
            !.accumulator = result]

add_to_accumulator(c, data) ==
    LET carry == IF BitAnd(c.status, 1) = 1 THEN 1 ELSE 0
        sum == c.accumulator + data + carry
        result == sum % 256
    IN  [c EXCEPT
            !.status =
                SetFlag(SetFlag(c.status, CARRY, sum > 255), OVERFLOW,
                        BitAnd(BitAnd(BitXor(data, result),
                                      BitXor(result, c.accumulator)), 128) # 0),
            !.accumulator = result]

\* compare with the carry flag set by register > value
compare_strict(c, opcode, register) ==
    Unwrap(c, read_operand(c, opcode.mode), LAMBDA o:
    increment_program_counter(
        update_zero_and_negative_flags(
            [c EXCEPT !.status = SetFlag(c.status, CARRY, register > o.value)],
            (register - o.value) % 256),
        opcode.length))

compare(c, opcode, register) ==
    Unwrap(c, read_operand(c, opcode.mode), LAMBDA o:
    increment_program_counter(
        update_zero_and_negative_flags(
            [c EXCEPT !.status = SetFlag(c.status, CARRY, register >= o.value)],
            (register - o.value) % 256),
        opcode.length))

----------------------------------------------------------------------------
(* Instruction handlers: the CPU after the handler, given the CPU with     *)
(* program_counter already past the opcode byte.                           *)

adc(c, opcode) ==
    Unwrap(c, read_operand(c, opcode.mode), LAMBDA o:
    increment_program_counter(
        nz_accumulator(add_to_accumulator(c, o.value)), opcode.length))

and(c, opcode) ==
    Unwrap(c, read_operand(c, opcode.mode), LAMBDA o:
    increment_program_counter(
        nz_accumulator([c EXCEPT !.accumulator = BitAnd(c.accumulator, o.value)]),
        opcode.length))

\* The carry flag is set when bit 7 is shifted out and is never reset; the
\* result goes to the accumulator in every mode.
\* asl with the result written to the operand's place, as lsr writes it
asl_writes_operand(c, opcode) ==
    Unwrap(c, accumulator_or_operand(c, opcode.mode), LAMBDA o:
    Then(IF opcode.mode = "None" THEN [c EXCEPT !.accumulator = (o.value * 2) % 256]
         ELSE mem_write(c, o.address, (o.value * 2) % 256), LAMBDA c1:
    increment_program_counter(
        update_zero_and_negative_flags(
            [c1 EXCEPT !.status = IF o.value * 2 > 255
                                  THEN Status_set(c1.status, CARRY) ELSE c1.status],
            (o.value * 2) % 256),
        opcode.length)))

asl(c, opcode) ==
    Unwrap(c, accumulator_or_operand(c, opcode.mode), LAMBDA o:
    increment_program_counter(
        nz_accumulator(
            [c EXCEPT !.status = IF o.value * 2 > 255
                                 THEN Status_set(c.status, CARRY) ELSE c.status,
                      !.accumulator = (o.value * 2) % 256]),
        opcode.length))

cmp(c, opcode) == compare(c, opcode, c.accumulator)

cpx(c, opcode) == compare(c, opcode, c.register_x)

cpy(c, opcode) == compare(c, opcode, c.register_y)

clc(c) == [c EXCEPT !.status = Status_reset(c.status, CARRY)]

sec(c) == [c EXCEPT !.status = Status_set(c.status, CARRY)]

cld(c) == [c EXCEPT !.status = Status_reset(c.status, DECIMAL_MODE)]

sed(c) == [c EXCEPT !.status = Status_set(c.status, DECIMAL_MODE)]

cli(c) == [c EXCEPT !.status = Status_reset(c.status, INTERRUPT_DISABLE)]

sei(c) == [c EXCEPT !.status = Status_set(c.status, INTERRUPT_DISABLE)]

\* clv with the negative flag reset in place of the overflow flag
clv_resets_negative(c) == [c EXCEPT !.status = Status_reset(c.status, NEGATIV)]

clv(c) == [c EXCEPT !.status = Status_reset(c.status, OVERFLOW)]

\* mem_write(address, result), the flags from result, the program counter
write_back(c, address, result, length) ==
    Then(mem_write(c, address, result), LAMBDA c1:
    increment_program_counter(update_zero_and_negative_flags(c1, result), length))

dec(c, opcode) ==
    Unwrap(c, read_operand(c, opcode.mode), LAMBDA o:
    write_back(c, o.address, (o.value - 1) % 256, opcode.length))

dex(c) == nz_register_x([c EXCEPT !.register_x = (c.register_x - 1) % 256])

dey(c) == nz_register_y([c EXCEPT !.register_y = (c.register_y - 1) % 256])

eor(c, opcode) ==
    Unwrap(c, read_operand(c, opcode.mode), LAMBDA o:
    increment_program_counter(
        nz_accumulator([c EXCEPT !.accumulator = BitXor(c.accumulator, o.value)]),
        opcode.length))

inc(c, opcode) ==
    Unwrap(c, read_operand(c, opcode.mode), LAMBDA o:
    write_back(c, o.address, (o.value + 1) % 256, opcode.length))

\* inx that stops at 0xff
inx_saturating(c, opcode) ==
    increment_program_counter(
        nz_register_x([c EXCEPT !.register_x =
                           IF c.register_x = 255 THEN 255 ELSE c.register_x + 1]),
        opcode.length)

inx(c, opcode) ==
    increment_program_counter(
        nz_register_x([c EXCEPT !.register_x = (c.register_x + 1) % 256]),
        opcode.length)

iny(c, opcode) ==
    increment_program_counter(
        nz_register_y([c EXCEPT !.register_y = (c.register_y + 1) % 256]),
        opcode.length)

lda(c, opcode) ==
    Unwrap(c, read_operand(c, opcode.mode), LAMBDA o:
    increment_program_counter(
        nz_accumulator([c EXCEPT !.accumulator = o.value]), opcode.length))

ldx(c, opcode) ==
    Unwrap(c, read_operand(c, opcode.mode), LAMBDA o:
    increment_program_counter(
        nz_register_x([c EXCEPT !.register_x = o.value]), opcode.length))

ldy(c, opcode) ==
    Unwrap(c, read_operand(c, opcode.mode), LAMBDA o:
    increment_program_counter(
        nz_register_y([c EXCEPT !.register_y = o.value]), opcode.length))

\* The result of a shift or rotate goes to the accumulator in mode None and
\* to the operand's address otherwise.
write_result(c, mode, address, result) ==
    IF mode = "None" THEN [c EXCEPT !.accumulator = result]
    ELSE mem_write(c, address, result)

lsr(c, opcode) ==
    Unwrap(c, accumulator_or_operand(c, opcode.mode), LAMBDA o:
    Then(write_result(c, opcode.mode, o.address, o.value \div 2), LAMBDA c1:
    increment_program_counter(
        update_zero_and_negative_flags(
            [c1 EXCEPT !.status = SetFlag(c1.status, CARRY, BitAnd(o.value, 1) = 1)],
            o.value \div 2),
        opcode.length)))

nop(c) == c

ora(c, opcode) ==
    Unwrap(c, read_operand(c, opcode.mode), LAMBDA o:
    increment_program_counter(
        nz_accumulator([c EXCEPT !.accumulator = BitOr(c.accumulator, o.value)]),
        opcode.length))

pha(c) == push(c, c.accumulator)

\* php with the break flag and bit 5 set in the byte pushed
php_with_break(c) == push(c, BitOr(c.status, BitOr(BREAK, BREAK2)))

php(c) == push(c, c.status)

pla(c) == Then(pop(c), LAMBDA c1: nz_accumulator([c1 EXCEPT !.accumulator = c1.data]))

\* plp with the break flag of the popped byte ignored
plp_without_break(c) ==
    Then(pop(c), LAMBDA c1:
    [c1 EXCEPT !.status = Status_insert(c1.status, Status_reset(c1.data, BREAK))])

plp(c) ==
    Then(pop(c), LAMBDA c1: [c1 EXCEPT !.status = Status_insert(c1.status, c1.data)])

\* rotate_flags with the zero flag taken from the result
rotate_flags_of_result(c, carry_set, result) ==
    [c EXCEPT !.status =
        SetFlag(SetFlag(SetFlag(c.status, CARRY, carry_set),
                        NEGATIV, BitAnd(result, 128) = 128),
                ZERO, result = 0)]

\* The carry, negative and zero updates that end rol and ror: the zero
\* flag follows the accumulator.
rotate_flags(c, carry_set, result) ==
    [c EXCEPT !.status =
        SetFlag(SetFlag(SetFlag(c.status, CARRY, carry_set),
                        NEGATIV, BitAnd(result, 128) = 128),
                ZERO, c.accumulator = 0)]

rol_result(c, value) == BitOr((value * 2) % 256, BitAnd(c.status, CARRY))

rol(c, opcode) ==
    Unwrap(c, accumulator_or_operand(c, opcode.mode), LAMBDA o:
    Then(write_result(c, opcode.mode, o.address, rol_result(c, o.value)), LAMBDA c1:
    increment_program_counter(
        rotate_flags(c1, BitAnd(o.value, 128) = 128, rol_result(c, o.value)),
        opcode.length)))

\* ror with 0 shifted in at bit 7
ror_without_carry(c, value) == value \div 2

ror_result(c, value) ==
    IF BitAnd(c.status, CARRY) = 1 THEN BitOr(value \div 2, 128) ELSE value \div 2

ror(c, opcode) ==
    Unwrap(c, accumulator_or_operand(c, opcode.mode), LAMBDA o:
    Then(write_result(c, opcode.mode, o.address, ror_result(c, o.value)), LAMBDA c1:
    increment_program_counter(
        rotate_flags(c1, BitAnd(o.value, 1) = 1, ror_result(c, o.value)),
        opcode.length)))

\* value = !value + 1 is a checked u8 addition: it overflows for value = 0.
sbc(c, opcode) ==
    Unwrap(c, read_operand(c, opcode.mode), LAMBDA o:
    Arith(c, BitNot8(o.value) + 1, 256, AddOverflow, LAMBDA c1, value:
    increment_program_counter(
        nz_accumulator(add_to_accumulator(c1, value)), opcode.length)))

\* store with the zero and negative flags updated from the register
store_with_flags(c, opcode, register) ==
    Unwrap(c, get_operand_address(c, opcode.mode), LAMBDA address:
    Then(mem_write(c, address, register), LAMBDA c1:
    increment_program_counter(
        update_zero_and_negative_flags(c1, register), opcode.length)))

\* sta, stx, sty: the register to the operand's address.
store(c, opcode, register) ==
    Unwrap(c, get_operand_address(c, opcode.mode), LAMBDA address:
    Then(mem_write(c, address, register), LAMBDA c1:
    increment_program_counter(c1, opcode.length)))

sta(c, opcode) == store(c, opcode, c.accumulator)

stx(c, opcode) == store(c, opcode, c.register_x)

sty(c, opcode) == store(c, opcode, c.register_y)

tax(c) == nz_register_x([c EXCEPT !.register_x = c.accumulator])

tay(c) == nz_register_y([c EXCEPT !.register_y = c.accumulator])

tsx(c) == nz_register_x([c EXCEPT !.register_x = c.stack_pointer % 256])

txa(c) == nz_accumulator([c EXCEPT !.accumulator = c.register_x])

\* txs with the stack page left out
txs_without_page(c) == [c EXCEPT !.stack_pointer = c.register_x]

txs(c) == [c EXCEPT !.stack_pointer = BitOr(c.register_x, \h100)]

tya(c) == nz_accumulator([c EXCEPT !.accumulator = c.register_y])

----------------------------------------------------------------------------
(* Dispatch and the fetch loop.                                            *)

\* interpret returning true for BRK as well
returns_true(c, value) == [c EXCEPT !.continue_execution = TRUE]

\* The value interpret returns is the CPU's continue_execution.
returns(c, value) == [c EXCEPT !.continue_execution = value]

\* The default arm doing nothing: _ => {}
unknown_opcode_skipped(c, opcode) == c

\* _ => panic!("Unknown opcode: {:#x}", opcode.code)
unknown_opcode(c, opcode) == Throw(c, UnknownOpcode(opcode.code))

interpret(c, opcode) ==
    LET code == opcode.code IN
    IF code = \h00
    THEN returns(increment_program_counter(c, opcode.length), FALSE)
    ELSE returns(
            CASE code = \h00 -> c
          [] code \in {\h69, \h65, \h75, \h6D, \h7D, \h79, \h61, \h71} -> adc(c, opcode)
          [] code \in {\h29, \h25, \h35, \h2D, \h3D, \h39, \h21, \h31} -> and(c, opcode)
          [] code \in {\hC9, \hC5, \hD5, \hCD, \hDD, \hD9, \hC1, \hD1} -> cmp(c, opcode)
          [] code \in {\hE0, \hE4, \hEC} -> cpx(c, opcode)
          [] code \in {\hC0, \hC4, \hCC} -> cpy(c, opcode)
          [] code \in {\h0A, \h06, \h16, \h0E, \h1E} -> asl(c, opcode)
          [] code \in {\h18} -> clc(c)
          [] code \in {\hD8} -> cld(c)
          [] code \in {\h58} -> cli(c)
          [] code \in {\hB8} -> clv(c)
          [] code \in {\hC6, \hD6, \hCE, \hDE} -> dec(c, opcode)
          [] code \in {\hCA} -> dex(c)
          [] code \in {\h88} -> dey(c)
          [] code \in {\h49, \h45, \h55, \h4D, \h5D, \h59, \h41, \h51} -> eor(c, opcode)
          [] code \in {\hE6, \hF6, \hEE, \hFE} -> inc(c, opcode)
          [] code \in {\hE8} -> inx(c, opcode)
          [] code \in {\hC8} -> iny(c, opcode)
          [] code \in {\hA9, \hA5, \hB5, \hAD, \hBD, \hB9, \hA1, \hB1} -> lda(c, opcode)
          [] code \in {\hA2, \hA6, \hB6, \hAE, \hBE} -> ldx(c, opcode)
          [] code \in {\hA0, \hA4, \hB4, \hAC, \hBC} -> ldy(c, opcode)
          [] code \in {\h4A, \h46, \h56, \h4E, \h5E} -> lsr(c, opcode)
          [] code \in {\hEA} -> nop(c)
          [] code \in {\h09, \h05, \h15, \h0D, \h1D, \h19, \h01, \h11} -> ora(c, opcode)
          [] code \in {\h48} -> pha(c)
          [] code \in {\h08} -> php(c)
          [] code \in {\h68} -> pla(c)
          [] code \in {\h28} -> plp(c)
          [] code \in {\h2A, \h26, \h36, \h2E, \h3E} -> rol(c, opcode)
          [] code \in {\h6A, \h66, \h76, \h6E, \h7E} -> ror(c, opcode)
          [] code \in {\hE9, \hE5, \hF5, \hED, \hFD, \hF9, \hE1, \hF1} -> sbc(c, opcode)
          [] code \in {\h38} -> sec(c)
          [] code \in {\hF8} -> sed(c)
          [] code \in {\h78} -> sei(c)
          [] code \in {\h85, \h95, \h8D, \h9D, \h99, \h81, \h91} -> sta(c, opcode)
          [] code \in {\h86, \h96, \h8E} -> stx(c, opcode)
          [] code \in {\h84, \h94, \h8C} -> sty(c, opcode)
          [] code \in {\hAA} -> tax(c)
          [] code \in {\hA8} -> tay(c)
          [] code \in {\hBA} -> tsx(c)
          [] code \in {\h8A} -> txa(c)
          [] code \in {\h9A} -> txs(c)
          [] code \in {\h98} -> tya(c)
              [] OTHER -> unknown_opcode(c, opcode),
            TRUE)

\* The table lookup, program_counter += 1 and interpret.
\* execute with program_counter left at the opcode byte
execute_in_place(c, opcode_number) ==
    IF opcode_number >= OpcodeTableSize
    THEN Throw(c, TableIndexOutOfBounds(opcode_number))
    ELSE interpret(c, opcode_table[opcode_number])

execute(c, opcode_number) ==
    IF opcode_number >= OpcodeTableSize
    THEN Throw(c, TableIndexOutOfBounds(opcode_number))
    ELSE Arith(c, c.program_counter + 1, 65536, AddOverflow, LAMBDA c1, pc:
         interpret([c1 EXCEPT !.program_counter = pc], opcode_table[opcode_number]))

\* The fetch and what follows it in an iteration of the loop.
run_iteration(c) ==
    Unwrap(c, mem_read(c, c.program_counter), LAMBDA opcode_number:
    execute(c, opcode_number))

\* The callbacks: |_| {} of run(), and a callback that assigns
\* program_counter.
EmptyCallback == <<"empty", 0>>
SetProgramCounter(address) == <<"set_program_counter", address>>

\* callback(self)
invoke(c, f) ==
    [c EXCEPT !.program_counter =
                  IF f[1] = "set_program_counter" THEN f[2] ELSE c.program_counter,
              !.callbacks = c.callbacks + 1]

\* The callback invoked after the opcode byte is read
loop_iteration_fetch_first(c, f) ==
    Unwrap(c, mem_read(c, c.program_counter), LAMBDA opcode_number:
    execute(invoke(c, f), opcode_number))

\* One iteration of the loop of run_with_callback: the callback, then the
\* fetch, the table lookup, program_counter += 1 and interpret.
loop_iteration(c, f) == run_iteration(invoke(c, f))

----------------------------------------------------------------------------
(* Construction, loading and reset.                                        *)

new ==
    [accumulator |-> 0, status |-> 0, program_counter |-> 0,
     stack_pointer |-> \h01fd, register_x |-> 0, register_y |-> 0,
     memory |-> EmptyMemory, panic |-> NoPanic]

ProgramBase == \h0600
ResetVector == \hFFFC

\* self.memory[base..(base + program.len())].copy_from_slice(&program[..]):
\* the cells of the range take the program's bytes.
copy_from_slice(m, base, program) ==
    LET range == base..(base + Len(program) - 1)
    IN  [a \in (DOMAIN m \ range) \cup {b \in range : program[b - base + 1] # 0} |->
            IF a \in range THEN program[a - base + 1] ELSE m[a]]

\* load with the reset vector left as it was
load_without_vector(c, program) ==
    IF ProgramBase + Len(program) > MemorySize
    THEN Throw(c, MemoryIndexOutOfBounds(ProgramBase + Len(program)))
    ELSE [c EXCEPT !.memory = copy_from_slice(c.memory, ProgramBase, program)]

load(c, program) ==
    IF ProgramBase + Len(program) > MemorySize
    THEN Throw(c, MemoryIndexOutOfBounds(ProgramBase + Len(program)))
    ELSE mem_write_u16([c EXCEPT !.memory = copy_from_slice(c.memory, ProgramBase, program)],
                       ResetVector, ProgramBase)

\* self.program_counter = self.mem_read_u16(0xFFFC)
load_program_counter(c) ==
    Unwrap(c, mem_read_u16(c, ResetVector), LAMBDA vector:
    [c EXCEPT !.program_counter = vector])

\* reset with the stack pointer left as it was
reset_keeps_stack_pointer(c) ==
    load_program_counter(
        [c EXCEPT !.accumulator = 0, !.register_x = 0, !.register_y = 0,
                  !.status = Status_reset(c.status, \hff)])

\* reset without self.status.reset(0xff)
reset_keeps_status(c) ==
    load_program_counter(
        [c EXCEPT !.accumulator = 0, !.register_x = 0, !.register_y = 0,
                  !.stack_pointer = \h01fd])

reset(c) ==
    load_program_counter(
        [c EXCEPT !.accumulator = 0, !.register_x = 0, !.register_y = 0,
                  !.status = Status_reset(c.status, \hff),
                  !.stack_pointer = \h01fd])

load_and_reset(c, program) == Then(load(c, program), LAMBDA c1: reset(c1))

\* run(): the loop followed for at most n iterations, to its halt or abort.
RECURSIVE run(_, _)
run(c, n) ==
    IF n = 0 \/ ~Ok(c) \/ ~c.continue_execution THEN c
    ELSE run(loop_iteration(c, EmptyCallback), n - 1)

\* cpu_tests.rs: load, then program_counter from the reset vector; run follows.
debug_load(c, program) ==
    Then(load(c, program), LAMBDA c1: load_program_counter(c1))

----------------------------------------------------------------------------
(* The inputs the host draws from.                                         *)

\* Loop iterations followed in one run.
MaxSteps == 3

AccumulatorBytes == {\h00, \h01, \h80, \hFF}
IndexBytes == {<<\h00, \h00>>, <<\h01, \h00>>, <<\h00, \h01>>, <<\hFF, \h01>>}
StatusBytes == {\h00, \hFF}

\* <<address, data>> of the host's mem_write
HostWrites ==
    {<<\h0001, \h01>>, <<\h0001, \h80>>, <<\h0001, \hFF>>, <<\h01FE, \h80>>,
     <<\hFFFD, \h80>>, <<\hFFFF, \h01>>}
HostReads == {\h0001, \hFFFE, \hFFFF}

OperandLow == {\h00, \h01, \h80, \hFF}
\* The addresses 0x0000, 0x0001, 0x00FF, 0xFFFE and 0xFFFF
OperandWords == {<<\h00, \h00>>, <<\h01, \h00>>, <<\hFF, \h00>>, <<\hFE, \hFF>>,
                 <<\hFF, \hFF>>}

\* The operand bytes get_operand_address reads for a mode.
OperandBytes(mode) ==
    CASE mode = "None" -> 0
      [] mode \in {"Absolute", "Absolute_X", "Absolute_Y"} -> 2
      [] OTHER -> 1

Populated == {e[1] : e \in OpcodeEntries}

\* The one-instruction programs that start with the byte op.
InstructionsOf(op) ==
    IF op \notin Populated THEN {<<op>>}
    ELSE LET n == OperandBytes(opcode_table[op].mode) IN
         CASE n = 0 -> {<<op>>}
           [] n = 1 -> {<<op, lo>> : lo \in OperandLow}
           [] n = 2 -> {<<op, w[1], w[2]>> : w \in OperandWords}

\* TXS; PHA / TXS; PLA / PLA; PLA; PLA / NOP; BRK / TXS; PHP / TXS; PLP /
\* LDA #$80; STA $01
ScenarioPrograms ==
    { <<\h9A, \h48>>, <<\h9A, \h68>>, <<\h68, \h68, \h68>>, <<\hEA, \h00>>,
      <<\h9A, \h08>>, <<\h9A, \h28>>,
      <<\hA9, \h80, \h85, \h01>> }

Programs == UNION {InstructionsOf(op) : op \in 0..255} \cup ScenarioPrograms

\* The addresses and data of the host's 16-bit accesses.
WordAddresses ==
    {\h0000, \h0001, \h00FF, \h01FE, \h8000, \hFFFC, \hFFFD, \hFFFE, \hFFFF}
WordValues == {\h0000, \h0001, \h00FF, \h0100, \h0600, \h8001, \hFFFE, \hFFFF}

\* No 16-bit access yet.
NoWord == [address |-> 0, data |-> 0, returned |-> 0]

\* The callbacks the host passes to run_with_callback.
Callbacks == {EmptyCallback, SetProgramCounter(\h0001), SetProgramCounter(\h0601)}

----------------------------------------------------------------------------
(* The state machine: the host's calls and the iterations of the loop.     *)

\* The CPU, in a build with (oc) or without overflow checks.  Only the
\* instructions have arithmetic that can overflow: the host's calls are
\* the same in every build.  continue_execution is the local of
\* run_with_callback and data the byte pop has returned.
Self(oc) ==
    [accumulator |-> accumulator, status |-> status,
     program_counter |-> program_counter, stack_pointer |-> stack_pointer,
     register_x |-> register_x, register_y |-> register_y,
     memory |-> memory, panic |-> panic,
     overflow_checks |-> oc, overflowed |-> FALSE, continue_execution |-> TRUE,
     data |-> 0, callbacks |-> callbacks, word |-> word]

\* The builds this run can still be.
Builds == IF build = "any" THEN BOOLEAN ELSE {build = "debug"}

Becomes(c) ==
    /\ accumulator' = c.accumulator
    /\ status' = c.status
    /\ program_counter' = c.program_counter
    /\ stack_pointer' = c.stack_pointer
    /\ register_x' = c.register_x
    /\ register_y' = c.register_y
    /\ memory' = c.memory
    /\ panic' = c.panic
    /\ callbacks' = c.callbacks
    /\ word' = c.word
    /\ build' = IF ~c.overflowed THEN build
                ELSE IF c.overflow_checks THEN "debug" ELSE "release"

Init ==
    /\ accumulator = new.accumulator
    /\ status = new.status
    /\ program_counter = new.program_counter
    /\ stack_pointer = new.stack_pointer
    /\ register_x = new.register_x
    /\ register_y = new.register_y
    /\ memory = new.memory
    /\ panic = new.panic
    /\ phase = "idle"
    /\ called = "new"
    /\ steps = 0
    /\ loaded = <<>>
    /\ callback = EmptyCallback
    /\ callbacks = 0
    /\ word = NoWord
    /\ build = "any"

\* The host assigns the public fields, as the tests do before a run.
HostAssign ==
    /\ phase = "idle" /\ called = "new"
    /\ \E a \in AccumulatorBytes, xy \in IndexBytes, p \in StatusBytes :
          /\ accumulator' = a
          /\ register_x' = xy[1]
          /\ register_y' = xy[2]
          /\ status' = p
    /\ called' = "assign"
    /\ UNCHANGED <<program_counter, stack_pointer, memory, phase, panic, steps,
                   loaded, callback, callbacks, word, build>>

\* cpu.mem_write(address, data)
HostMemWrite ==
    /\ phase = "idle" /\ called \in {"new", "assign"}
    /\ \E w \in HostWrites : Becomes(mem_write(Self(FALSE), w[1], w[2]))
    /\ called' = "mem_write"
    /\ phase' = IF panic' # NoPanic THEN "panicked" ELSE phase
    /\ UNCHANGED <<steps, loaded, callback>>

\* cpu.mem_read(address): the value is the host's; the CPU changes only by
\* the panic of an index out of bounds.
HostMemRead ==
    /\ phase = "idle" /\ called \in {"new", "assign", "mem_write"}
    /\ \E address \in HostReads :
          Becomes(Throw(Self(FALSE), mem_read(Self(FALSE), address).panic))
    /\ called' = "mem_read"
    /\ phase' = IF panic' # NoPanic THEN "panicked" ELSE phase
    /\ UNCHANGED <<steps, loaded, callback>>

\* cpu.mem_write_u16(address, data)
HostMemWriteU16 ==
    /\ phase = "idle" /\ called \in {"new", "mem_write"}
    /\ \E address \in WordAddresses, data \in WordValues :
          Becomes([mem_write_u16(Self(FALSE), address, data)
                       EXCEPT !.word = [word EXCEPT !.address = address,
                                                    !.data = data]])
    /\ called' = "mem_write_u16"
    /\ phase' = IF panic' # NoPanic THEN "panicked" ELSE phase
    /\ UNCHANGED <<steps, loaded, callback>>

\* A panic of a call that returns leaves the host without the value.
Returned(c, r, address) ==
    [Throw(c, r.panic) EXCEPT !.word = [c.word EXCEPT !.address = address,
                                                     !.returned = r.value]]

\* cpu.mem_read_u16(position)
HostMemReadU16 ==
    /\ phase = "idle" /\ called \in {"new", "mem_write", "mem_write_u16"}
    /\ \E position \in WordAddresses :
          Becomes(Returned(Self(FALSE), mem_read_u16(Self(FALSE), position), position))
    /\ called' = "mem_read_u16"
    /\ phase' = IF panic' # NoPanic THEN "panicked" ELSE phase
    /\ UNCHANGED <<steps, loaded, callback>>

\* cpu.load(program)
Load ==
    /\ phase = "idle" /\ called \in {"new", "assign", "mem_write"}
    /\ \E program \in Programs :
          Becomes(load(Self(FALSE), program)) /\ loaded' = program
    /\ called' = "load"
    /\ phase' = IF panic' # NoPanic THEN "panicked" ELSE phase
    /\ UNCHANGED <<steps, callback>>

\* cpu.reset()
Reset ==
    /\ phase \in {"idle", "halted"} /\ called # "reset"
    /\ Becomes(reset(Self(FALSE)))
    /\ called' = "reset"
    /\ phase' = IF panic' # NoPanic THEN "panicked" ELSE phase
    /\ UNCHANGED <<steps, loaded, callback>>

\* cpu.run(): the loop is entered.
Run ==
    /\ phase = "idle" /\ called \in {"new", "assign", "mem_write", "reset"}
    /\ phase' = "running"
    /\ called' = "run"
    /\ steps' = 0
    /\ callback' = EmptyCallback
    /\ UNCHANGED <<accumulator, status, program_counter, stack_pointer, register_x,
                   register_y, memory, panic, loaded, callbacks, word, build>>

\* cpu.run_with_callback(callback): the loop is entered.
RunWithCallback ==
    /\ phase = "idle" /\ called \in {"new", "assign", "mem_write", "reset"}
    /\ \E f \in Callbacks : callback' = f
    /\ phase' = "running"
    /\ called' = "run_with_callback"
    /\ steps' = 0
    /\ UNCHANGED <<accumulator, status, program_counter, stack_pointer, register_x,
                   register_y, memory, panic, loaded, callbacks, word, build>>

\* cpu.load_and_run(program): load, reset, and the loop is entered.
LoadAndRun ==
    /\ phase = "idle" /\ called \in {"new", "assign", "mem_write"}
    /\ \E program \in Programs :
          Becomes(load_and_reset(Self(FALSE), program)) /\ loaded' = program
    /\ called' = "load_and_run"
    /\ phase' = IF panic' # NoPanic THEN "panicked" ELSE "running"
    /\ steps' = 0
    /\ callback' = EmptyCallback

\* cpu.debug_load_and_run(program) of the tests: load, program_counter from
\* the reset vector, and the loop is entered.
DebugLoadAndRun ==
    /\ phase = "idle" /\ called \in {"new", "assign", "mem_write"}
    /\ \E program \in Programs :
          Becomes(debug_load(Self(FALSE), program)) /\ loaded' = program
    /\ called' = "debug_load_and_run"
    /\ phase' = IF panic' # NoPanic THEN "panicked" ELSE "running"
    /\ steps' = 0
    /\ callback' = EmptyCallback

\* The loop goes on while interpret returns true.
Continues(c) ==
    /\ Becomes(c)
    /\ phase' = IF ~Ok(c) THEN "panicked"
                ELSE IF c.continue_execution THEN "running" ELSE "halted"

\* One iteration of the loop.
Step ==
    /\ phase = "running" /\ steps < MaxSteps
    /\ \E oc \in Builds : Continues(loop_iteration(Self(oc), callback))
    /\ steps' = steps + 1
    /\ UNCHANGED <<called, loaded, callback>>

Next ==
    \/ HostAssign
    \/ HostMemWrite
    \/ HostMemRead
    \/ Load
    \/ Reset
    \/ Run
    \/ LoadAndRun
    \/ DebugLoadAndRun
    \/ Step

Spec == Init /\ [][Next]_vars

\* load_and_run of every program, after the host's writes to memory.
NextLoadAndRun ==
    \/ HostMemWrite
    \/ LoadAndRun
    \/ Step

SpecLoadAndRun == Init /\ [][NextLoadAndRun]_vars

\* The host's calls with run_with_callback in the place of run.
NextWithCallback ==
    \/ HostAssign
    \/ HostMemWrite
    \/ Load
    \/ Reset
    \/ RunWithCallback
    \/ Step

SpecWithCallback == Init /\ [][NextWithCallback]_vars

\* The host's accesses to memory on a new CPU.
NextMemory ==
    \/ HostMemWrite
    \/ HostMemWriteU16
    \/ HostMemReadU16

SpecMemory == Init /\ [][NextMemory]_vars

-----------------------------------------------------------------------------
(* The tests' setting for one instruction: the registers are assigned on a *)
(* new CPU, then debug_load_and_run is called with the program.            *)

\* ADC, SBC, CMP, CPX, CPY with an immediate operand.
ArithmeticOpcodes == {\h69, \hE9, \hC9, \hE0, \hC0}
OperandValues == 0..255
AssignedAccumulators == {\h00, \h01, \h05, \h7F, \h80, \hFF}
AssignedIndexes == {<<\h00, \hFF>>, <<\h80, \h01>>, <<\hFF, \h7F>>}
AssignedStatuses == {\h00, \h01, \hFF}

\* PHA; LDA #0; PLA
PushPullProgram == <<\h48, \hA9, \h00, \h68>>

\* Instructions that change flags and leave the stack and Y alone: CLC, SEC,
\* CLD, SED, CLI, SEI, CLV, INX, ASL A, LDA #$00, LDA #$80, ADC #$80,
\* CMP #$01.
FlagChanging ==
    { <<\h18>>, <<\h38>>, <<\hD8>>, <<\hF8>>, <<\h58>>, <<\h78>>, <<\hB8>>,
      <<\hE8>>, <<\h0A>>, <<\hA9, \h00>>, <<\hA9, \h80>>, <<\h69, \h80>>,
      <<\hC9, \h01>> }

\* PHP; <op>; PLP
StatusPrograms == {<<\h08>> \o op \o <<\h28>> : op \in FlagChanging}

\* LDA immediate and STA in its seven modes, one for each addressing mode
\* but None, with the operand bytes.
AddressingPrograms ==
    {<<op, b>> : op \in {\hA9, \h85, \h95, \h81, \h91},
                 b \in {\h00, \h01, \h7F, \hFE, \hFF}}
    \cup {<<op, w[1], w[2]>> : op \in {\h8D, \h9D, \h99},
                               w \in {<<\h00, \h00>>, <<\hFF, \h00>>, <<\h34, \h12>>,
                                      <<\h00, \h80>>, <<\hF0, \hFF>>, <<\hFF, \hFF>>}}
AddressingIndexes == {\h00, \h01, \h02, \hFF} \X {\h00, \h01, \hFF}

\* The cells the host writes for pointers in the zero page, and the cell
\* after the zero page.
PointerTable ==
    << <<\h0000, \h34>>, <<\h0001, \h12>>, <<\h007F, \h80>>, <<\h00FE, \hF0>>,
       <<\h00FF, \hFF>>, <<\h0100, \h56>> >>

\* cpu.mem_write(address, data) for each of the writes in turn.
RECURSIVE Written(_, _)
Written(c, writes) ==
    IF writes = <<>> THEN c
    ELSE Written(mem_write(c, Head(writes)[1], Head(writes)[2]), Tail(writes))

\* TXS; LDX #$00; TSX
TransferProgram == <<\h9A, \hA2, \h00, \hBA>>

\* ASL, ROL and ROR of the zero-page bytes 0x00 and 0x01
ShiftPrograms == {<<op, address>> : op \in {\h06, \h26, \h66}, address \in {\h00, \h01}}

\* CPU::new() with the registers assigned.
Assigned(a, x, y, p) ==
    [accumulator |-> a, status |-> p, program_counter |-> new.program_counter,
     stack_pointer |-> new.stack_pointer, register_x |-> x, register_y |-> y,
     memory |-> new.memory, panic |-> new.panic,
     overflow_checks |-> FALSE, overflowed |-> FALSE, continue_execution |-> TRUE,
     data |-> 0, callbacks |-> 0, word |-> NoWord]

\* The loop is entered with the CPU c, by the call named, the program
\* loaded last.
Entered(c, program, call) ==
    /\ accumulator = c.accumulator
    /\ status = c.status
    /\ program_counter = c.program_counter
    /\ stack_pointer = c.stack_pointer
    /\ register_x = c.register_x
    /\ register_y = c.register_y
    /\ memory = c.memory
    /\ panic = c.panic
    /\ phase = "running"
    /\ called = call
    /\ steps = 0
    /\ loaded = program
    /\ callback = EmptyCallback
    /\ callbacks = 0
    /\ word = NoWord
    /\ build = "any"

\* The loop of debug_load_and_run(program) is entered with the CPU c.
Started(c, program) == Entered(c, program, "debug_load_and_run")

\* The push-pull program is run with the accumulator's value in X as well,
\* a status program with the status byte in Y as well, an addressing
\* program with the pointer table written and A = 0xA5, the transfer
\* program with every X, a shift program with every byte written at its
\* operand's address, and ASL with every accumulator as well, its value in
\* X too.
InitOperands ==
    \/ \E op \in ArithmeticOpcodes, v \in OperandValues, a \in AssignedAccumulators,
          xy \in AssignedIndexes, p \in AssignedStatuses :
          Started(debug_load(Assigned(a, xy[1], xy[2], p), <<op, v>>), <<op, v>>)
    \/ \E a \in OperandValues, p \in AssignedStatuses :
          Started(debug_load(Assigned(a, a, 0, p), PushPullProgram), PushPullProgram)
    \/ \E p \in OperandValues, a \in {\h00, \h80}, program \in StatusPrograms :
          Started(debug_load(Assigned(a, a, p, p), program), program)
    \/ \E xy \in AddressingIndexes, program \in AddressingPrograms :
          Started(debug_load(Written(Assigned(\hA5, xy[1], xy[2], 0), PointerTable),
                             program), program)
    \/ \E x \in OperandValues, p \in {\h00, \hFF} :
          Started(debug_load(Assigned(\hA5, x, \h5A, p), TransferProgram),
                  TransferProgram)
    \/ \E program \in ShiftPrograms, v \in OperandValues, a \in AssignedAccumulators,
          p \in {\h00, \h01} :
          Started(debug_load(mem_write(Assigned(a, 0, 0, p), program[2], v), program),
                  program)
    \/ \E program \in ShiftPrograms, v \in {\h00, \h08, \h80, \hFF}, a \in OperandValues :
          /\ program[1] = \h06
          /\ Started(debug_load(mem_write(Assigned(a, a, 0, 0), program[2], v), program),
                     program)

NextOperands == Step

-----------------------------------------------------------------------------
(* The tests inx_overflow and iny_overflow: one instruction repeated, run *)
(* to the BRK that follows the program.                                    *)

\* vec![0xe8; 260]
Repetitions == 260

\* INX, INY, DEX, DEY repeated
CountingPrograms ==
    {[i \in 1..Repetitions |-> op] : op \in {\hE8, \hC8, \hCA, \h88}}

\* The program is run with the same value in A, X and Y: every value for
\* INX.
InitCounting ==
    \E program \in CountingPrograms :
    \E r \in IF program[1] = \hE8 THEN OperandValues
              ELSE {\h00, \h01, \h7F, \h80, \hFF} :
        Started(debug_load(Assigned(r, r, r, 0), program), program)

\* An iteration of the loop, the run followed to its end.
StepToEnd ==
    /\ phase = "running"
    /\ \E oc \in Builds : Continues(loop_iteration(Self(oc), callback))
    /\ steps' = steps + 1
    /\ UNCHANGED <<called, loaded, callback>>

SpecCounting == InitCounting /\ [][StepToEnd]_vars

\* k times LDA #v; PHA, then k times PLA, each PHA and PLA followed by the
\* instructions of between: the values pushed are first, first + stride,
\* ... mod 256.  253 pushes fill the stack from 0x01FD down to 0x0101, the
\* 254th aborts.  In between: nothing, NOP, INX, ASL A, TSX, SEC.
StackPrograms ==
    { [i \in 1..((4 + 2 * Len(b[3])) * k) |->
          LET pushing == 3 + Len(b[3])
              pulling == 1 + Len(b[3])
              at == IF i <= pushing * k THEN ((i - 1) % pushing) + 1
                    ELSE 3 + ((i - pushing * k - 1) % pulling)
          IN  CASE at = 1 -> \hA9
                [] at = 2 -> (b[1] + b[2] * ((i - 1) \div pushing)) % 256
                [] at = 3 -> IF i <= pushing * k THEN \h48 ELSE \h68
                [] OTHER -> b[3][1]] :
        k \in {1, 2, 3, 253, 254},
        b \in { <<\h01, 1, <<>>>>, <<\h80, 7, <<>>>>, <<\hFE, 1, <<\hEA>>>>,
                <<\h00, 3, <<\hE8>>>>, <<\hFF, 255, <<\h0A>>>>,
                <<\h55, 1, <<\hBA>>>>, <<\h7F, 129, <<\h38>>>> } }

\* load_and_run of a stack program, or of a program of one instruction:
\* the loop is entered after load and reset.
InitStack ==
    \E program \in StackPrograms \cup Programs :
        /\ Ok(load_and_reset(Assigned(0, 0, 0, 0), program))
        /\ Entered(load_and_reset(Assigned(0, 0, 0, 0), program), program, "load_and_run")

SpecStack == InitStack /\ [][StepToEnd]_vars

\* Runs followed to their end: debug_load_and_run of a program with the
\* registers assigned, and run() after the host has written the reset
\* vector and has called reset().
NextRuns ==
    \/ HostAssign
    \/ HostMemWriteU16
    \/ Reset
    \/ Run
    \/ DebugLoadAndRun
    \/ StepToEnd

\* An iteration is counted: of the actions StepToEnd alone does it, and
\* StepToEnd is enabled whenever the loop is running.
Iterates == phase = "running" /\ steps' = steps + 1

\* The loop has no exit but the return value of interpret and a panic: a
\* running loop goes on to its next iteration.
SpecRuns == Init /\ [][NextRuns]_vars /\ WF_steps(Iterates)

SpecOperands == InitOperands /\ [][NextOperands]_vars

TypeOK ==
    /\ accumulator \in 0..255
    /\ status \in 0..255
    /\ register_x \in 0..255
    /\ register_y \in 0..255
    /\ program_counter \in 0..65535
    /\ stack_pointer \in 0..65535
    /\ DOMAIN memory \subseteq 0..(MemorySize - 1)
    /\ \A a \in DOMAIN memory : memory[a] \in 1..255
    /\ phase \in {"idle", "running", "halted", "panicked"}
    /\ loaded \in Programs \cup {<<>>} \cup {PushPullProgram, TransferProgram} \cup StatusPrograms
                 \cup ShiftPrograms \cup StackPrograms
                 \cup AddressingPrograms \cup CountingPrograms
                 \cup (ArithmeticOpcodes \X OperandValues)
    /\ callback \in Callbacks
    /\ word \in [address : 0..65535, data : 0..65535, returned : 0..65535]
    /\ callbacks \in Nat
    /\ build \in {"any", "debug", "release"}

----------------------------------------------------------------------------
(* Properties.                                                             *)

\* The byte the next iteration of the loop fetches.
Fetched == Cell(memory, program_counter)

\* The loop is about to fetch a byte: the read at program_counter is in
\* bounds.
Fetching == phase = "running" /\ program_counter < MemorySize

\* A, X, Y, SP, P and memory stay as they are.
RegistersAndMemoryUnchanged ==
    UNCHANGED <<accumulator, register_x, register_y, stack_pointer, status, memory>>

\* C1: the loop halts on the first BRK (0x00) it fetches and on no other
\* opcode; at the halt program_counter is the address of the BRK byte plus
\* 1, BRK leaves A, X, Y, SP, P and memory unchanged, and no iteration
\* follows the halt.
C1_HaltsOnBrkOnly ==
    [][ /\ (Fetching /\ Fetched = \h00)
            => /\ phase' = "halted"
               /\ program_counter' = program_counter + 1
               /\ RegistersAndMemoryUnchanged
        /\ (phase = "running" /\ phase' = "halted")
            => (Fetching /\ Fetched = \h00)
        /\ phase = "halted" => steps' = steps ]_vars

\* NOP; BRK has run from 0x0600 and the loop has halted past the BRK.
C1_Witness ==
    /\ phase = "halted" /\ steps = 2
    /\ loaded = <<\hEA, \h00>>
    /\ program_counter = \h0602
    /\ Cell(memory, program_counter - 1) = \h00

\* The length the specification lists for an opcode: 1 for the implied and
\* accumulator forms, 2 for the immediate, zero-page and indirect forms, 3
\* for the absolute forms.
ListedLength(code) == 1 + OperandBytes(opcode_table[code].mode)

\* C2: an instruction of the opcode table that starts at PC0 and completes
\* leaves program_counter = PC0 + the length listed for its opcode.
C2_AdvancesByListedLength ==
    [][ (Fetching /\ Fetched \in Populated /\ phase' # "panicked")
            => program_counter' = program_counter + ListedLength(Fetched) ]_vars

\* The instructions that set N and Z.
SetsNZ ==
    {"LDA", "LDX", "LDY", "TAX", "TAY", "TSX", "TXA", "TYA", "INX", "INY",
     "DEX", "DEY", "INC", "DEC", "ADC", "SBC", "AND", "ORA", "EOR", "PLA",
     "ASL", "LSR", "ROL", "ROR"}

\* The iteration executes an instruction that sets N and Z, to completion.
SetsNZStep ==
    /\ Fetching /\ Fetched \in Populated
    /\ opcode_table[Fetched].mnemonic \in SetsNZ
    /\ phase' # "panicked"

\* The address of the operand of the instruction fetched.
OperandAddress ==
    get_operand_address(
        [Self(FALSE) EXCEPT !.program_counter = program_counter + 1],
        opcode_table[Fetched].mode).value

\* ROL or ROR of a memory operand is fetched.
RotatesMemory ==
    /\ opcode_table[Fetched].mnemonic \in {"ROL", "ROR"}
    /\ opcode_table[Fetched].mode # "None"

\* The byte the instruction fetched has written: to the accumulator (ASL
\* writes it there in every mode), to X, to Y, or to the operand's cell.
ResultByte ==
    LET op == opcode_table[Fetched] IN
    CASE op.mnemonic \in {"LDA", "TXA", "TYA", "ADC", "SBC", "AND", "ORA",
                          "EOR", "PLA", "ASL"} -> accumulator'
      [] op.mnemonic \in {"LDX", "TAX", "TSX", "INX", "DEX"} -> register_x'
      [] op.mnemonic \in {"LDY", "TAY", "INY", "DEY"} -> register_y'
      [] op.mnemonic \in {"LSR", "ROL", "ROR"} /\ op.mode = "None" -> accumulator'
      [] OTHER -> Cell(memory', OperandAddress)

\* C3 as stated: after every instruction that sets N and Z, Z is set
\* exactly when the result byte written is 0 and N is bit 7 of that byte.
C3_FlagsFollowResult ==
    [][ SetsNZStep
            => /\ Status_contains(status', ZERO) <=> (ResultByte = 0)
               /\ Status_contains(status', NEGATIV) <=> (BitAnd(ResultByte, 128) # 0) ]_vars

\* C3 as amended: after every instruction that sets N and Z, N is bit 7 of
\* the result byte written, and Z is set exactly when that byte is 0,
\* except after ROL and ROR of a memory operand, where Z is set exactly
\* when the accumulator is 0.
C3_FlagsFollowResultOrAccumulator ==
    [][ SetsNZStep
            => /\ Status_contains(status', ZERO)
                    <=> IF RotatesMemory THEN accumulator' = 0 ELSE ResultByte = 0
               /\ Status_contains(status', NEGATIV) <=> (BitAnd(ResultByte, 128) # 0) ]_vars

\* ROL $01 has rotated 0x01 into 0x02 with the accumulator 0: Z is set.
C3_Witness ==
    /\ phase = "running" /\ steps = 1
    /\ loaded = <<\h26, \h01>>
    /\ accumulator = 0
    /\ Cell(memory, \h0001) = \h02
    /\ Status_contains(status, ZERO)

\* C4: in every state the stack pointer is in the stack page.
C4_StackPointerInStackPage == \h0100 <= stack_pointer /\ stack_pointer <= \h01FF

\* The host calls reset().
Resetting == called # "reset" /\ called' = "reset"

\* C5: reset() from any state leaves A = X = Y = 0, P = 0, SP = 0x01FD and
\* program_counter = the little-endian word at 0xFFFC/0xFFFD, and changes
\* no memory byte.
C5_Reset ==
    [][ Resetting
            => /\ accumulator' = 0 /\ register_x' = 0 /\ register_y' = 0
               /\ status' = 0
               /\ stack_pointer' = \h01FD
               /\ program_counter' =
                      Cell(memory, \hFFFD) * 256 + Cell(memory, \hFFFC)
               /\ memory' = memory
               /\ panic' = NoPanic ]_vars

\* reset() after a run that halted, the vector pointing at the program.
C5_Witness ==
    /\ called = "reset" /\ phase = "halted"
    /\ program_counter = \h0600
    /\ accumulator = 0 /\ status = 0 /\ stack_pointer = \h01FD

\* The host calls load(program); loaded' is the program.
Loading == called # "load" /\ called' = "load"

\* The addresses load(program) writes.
LoadRange == (\h0600 .. (\h0600 + Len(loaded') - 1)) \cup {\hFFFC, \hFFFD}

\* C6: load(program) puts byte i of the program at 0x0600 + i, 0x00 at
\* 0xFFFC and 0x06 at 0xFFFD, and leaves the registers and every other
\* memory byte unchanged.
C6_Load ==
    [][ Loading
            => /\ panic' = NoPanic
               /\ \A i \in 1..Len(loaded') :
                      Cell(memory', \h0600 + (i - 1)) = loaded'[i]
               /\ Cell(memory', \hFFFC) = \h00
               /\ Cell(memory', \hFFFD) = \h06
               /\ \A a \in (DOMAIN memory \cup DOMAIN memory') \ LoadRange :
                      Cell(memory', a) = Cell(memory, a)
               /\ UNCHANGED <<accumulator, register_x, register_y, status,
                              stack_pointer, program_counter>> ]_vars

\* TXS; PHA has been loaded over a memory the host had written to.
C6_Witness ==
    /\ called = "load" /\ loaded = <<\h9A, \h48>>
    /\ Cell(memory, \h0600) = \h9A /\ Cell(memory, \h0601) = \h48
    /\ Cell(memory, \hFFFD) = \h06
    /\ Cell(memory, \h0001) = \h80
    /\ accumulator = \hFF

\* C7: a program loaded and run starts at 0x8000: BRK alone halts with
\* program_counter = 0x8001, and NOP; BRK with 0x8002.
C7_StartsAt8000 ==
    (phase = "halted" /\ called \in {"load_and_run", "debug_load_and_run"})
        => /\ loaded = <<\h00>> => program_counter = \h8001
           /\ loaded = <<\hEA, \h00>> => program_counter = \h8002

\* C8: mem_write(a, v) and mem_read(a) succeed for every address, and a
\* write changes the byte at a only.
C8_EveryAddressValid ==
    [][ /\ (called # "mem_write" /\ called' = "mem_write")
            => /\ panic' = NoPanic
               /\ \E w \in HostWrites : memory' = Store(memory, w[1], w[2])
        /\ (called # "mem_read" /\ called' = "mem_read")
            => /\ panic' = NoPanic
               /\ memory' = memory ]_vars

\* C9: when the byte fetched is not an opcode populated in the table, the
\* run aborts with A, X, Y, SP, P and memory as they were before the
\* fetch, and nothing happens after an abort.
C9_UnlistedByteAborts ==
    [][ /\ (Fetching /\ Fetched \notin Populated)
            => (phase' = "panicked" /\ RegistersAndMemoryUnchanged)
        /\ phase # "panicked" ]_vars

\* The run has aborted on a byte that is in no arm of interpret.
C9_Witness ==
    /\ phase = "panicked" /\ steps = 1
    /\ panic[1] = "Unknown opcode"
    /\ loaded = <<\h03>>
    /\ program_counter = \h0601

\* C10: the diagnostic of the abort on an unlisted byte names the byte
\* fetched.
C10_DiagnosticNamesFetchedByte ==
    [][ (Fetching /\ Fetched \notin Populated)
            => panic' = UnknownOpcode(Fetched) ]_vars

FetchAddress ==
    IF callback[1] = "set_program_counter" THEN callback[2] ELSE program_counter

\* C12: the callback is invoked once at the head of every iteration, so
\* its invocations number the instructions executed, and the opcode
\* fetched and executed is the byte at the program_counter the callback
\* has left.
C12_CallbackBeforeFetch ==
    [][ (phase = "running" /\ FetchAddress < MemorySize)
            => /\ callbacks' = callbacks + 1
               /\ callbacks' = steps'
               /\ phase' = "halted" <=> Cell(memory, FetchAddress) = \h00
               /\ phase' = "halted" => program_counter' = FetchAddress + 1
               /\ Cell(memory, FetchAddress) \notin Populated => phase' = "panicked"
               /\ (Cell(memory, FetchAddress) \in Populated /\ phase' # "panicked")
                    => program_counter' = FetchAddress
                            + opcode_table[Cell(memory, FetchAddress)].length ]_vars

\* NOP; BRK run with a callback that sets program_counter to 0x0001, where
\* the byte is 0: the first iteration has halted there.
C12_Witness ==
    /\ phase = "halted" /\ called = "run_with_callback"
    /\ callback = SetProgramCounter(\h0001)
    /\ callbacks = 1 /\ steps = 1
    /\ loaded = <<\hEA, \h00>>
    /\ program_counter = \h0002

\* The carry flag as a number.
CarryIn == IF Status_contains(status, CARRY) THEN 1 ELSE 0

\* The operand byte of the instruction fetched.
OperandValue == Cell(memory, OperandAddress)

\* The sign bit of a byte is set.
Negative(byte) == byte >= 128

\* C13: for every accumulator value A, operand v and carry-in C, ADC
\* leaves A' = (A + v + C) mod 256, C' = 1 exactly when A + v + C > 255,
\* V' = 1 exactly when A and v have the same sign bit and A' the other, Z
\* and N derived from A'; X, Y, SP and memory are unchanged.
C13_Adc ==
    [][ (Fetching /\ Fetched = \h69)
            => /\ accumulator' = (accumulator + OperandValue + CarryIn) % 256
               /\ Status_contains(status', CARRY)
                    <=> accumulator + OperandValue + CarryIn > 255
               /\ Status_contains(status', OVERFLOW)
                    <=> /\ Negative(accumulator) = Negative(OperandValue)
                        /\ Negative(accumulator') # Negative(accumulator)
               /\ Status_contains(status', ZERO) <=> accumulator' = 0
               /\ Status_contains(status', NEGATIV) <=> Negative(accumulator')
               /\ UNCHANGED <<register_x, register_y, stack_pointer, memory>> ]_vars

\* ADC #$01 with A = 0xFF and the carry set has left A = 1 with the carry
\* set again.
C13_Witness ==
    /\ loaded = <<\h69, \h01>> /\ steps = 1 /\ phase = "running"
    /\ accumulator = \h01 /\ status = CARRY
    /\ register_x = \h80 /\ register_y = \h01

\* The two's complement of a byte.
TwosComplement(v) == (256 - v) % 256

\* C14: for every accumulator value A, every operand v in 0..255 and
\* carry-in C, SBC completes without error and leaves
\* A' = (A + ((256 - v) mod 256) + C) mod 256, with C and V as the addition
\* of the two's complement of v produces them and Z/N derived from A'.
C14_Sbc ==
    [][ (Fetching /\ Fetched = \hE9)
            => /\ phase' # "panicked"
               /\ accumulator'
                    = (accumulator + TwosComplement(OperandValue) + CarryIn) % 256
               /\ Status_contains(status', CARRY)
                    <=> accumulator + TwosComplement(OperandValue) + CarryIn > 255
               /\ Status_contains(status', OVERFLOW)
                    <=> /\ Negative(accumulator) = Negative(TwosComplement(OperandValue))
                        /\ Negative(accumulator') # Negative(accumulator)
               /\ Status_contains(status', ZERO) <=> accumulator' = 0
               /\ Status_contains(status', NEGATIV) <=> Negative(accumulator') ]_vars

\* The register CMP, CPX or CPY compares.
Compared ==
    CASE Fetched = \hC9 -> accumulator
      [] Fetched = \hE0 -> register_x
      [] Fetched = \hC0 -> register_y

\* The V, D, I and B bits of a status byte.
UncomparedFlags(s) == BitAnd(s, OVERFLOW + DECIMAL_MODE + INTERRUPT_DISABLE + BREAK)

\* C15: after CMP/CPX/CPY with register value R and operand v, C = 1
\* exactly when R >= v, Z = 1 exactly when R = v, N is bit 7 of
\* (R - v) mod 256, and A, X, Y, SP, the V/D/I/B bits and memory are
\* unchanged.
C15_Compare ==
    [][ (Fetching /\ Fetched \in {\hC9, \hE0, \hC0})
            => /\ Status_contains(status', CARRY) <=> Compared >= OperandValue
               /\ Status_contains(status', ZERO) <=> Compared = OperandValue
               /\ Status_contains(status', NEGATIV)
                    <=> Negative((Compared + 256 - OperandValue) % 256)
               /\ UncomparedFlags(status') = UncomparedFlags(status)
               /\ UNCHANGED <<accumulator, register_x, register_y, stack_pointer,
                              memory>> ]_vars

\* CPX #$80 with X = 0x80, A = 0x05 and Y = 0x01 has left C and Z set and
\* N reset, the other bits of the status 0xFF as they were.
C15_Witness ==
    /\ loaded = <<\hE0, \h80>> /\ steps = 1 /\ phase = "running"
    /\ accumulator = \h05 /\ register_x = \h80 /\ register_y = \h01
    /\ status = \h7F

\* The iteration executes ASL to completion.
AslStep ==
    /\ Fetching /\ Fetched \in Populated
    /\ opcode_table[Fetched].mnemonic = "ASL"
    /\ phase' # "panicked"

\* The operand of the shift fetched: the accumulator, or the byte at the
\* operand's address.
ShiftOperand ==
    IF opcode_table[Fetched].mode = "None" THEN accumulator ELSE OperandValue

\* C16: after ASL, for either prior value of the carry flag, C equals bit 7
\* of the operand before the shift.
C16_AslCarry ==
    [][ AslStep => (Status_contains(status', CARRY) <=> Negative(ShiftOperand)) ]_vars

\* C17: ASL with a memory addressing mode takes its operand from memory at
\* the effective address and writes (operand << 1) mod 256 back to that
\* address.
C17_AslWritesBack ==
    [][ (AslStep /\ opcode_table[Fetched].mode # "None")
            => Cell(memory', OperandAddress) = (OperandValue * 2) % 256 ]_vars

\* The iteration executes STA, STX or STY to completion.
StoreStep ==
    /\ Fetching /\ Fetched \in Populated
    /\ opcode_table[Fetched].mnemonic \in {"STA", "STX", "STY"}
    /\ phase' # "panicked"

\* The register the store fetched writes.
Stored ==
    CASE opcode_table[Fetched].mnemonic = "STA" -> accumulator
      [] opcode_table[Fetched].mnemonic = "STX" -> register_x
      [] opcode_table[Fetched].mnemonic = "STY" -> register_y

\* C18: after STA/STX/STY in any addressing mode the byte at the effective
\* address equals the source register, no bit of P changes, A, X, Y and SP
\* are unchanged and no other memory byte changes; so LDA #v then STA addr
\* leaves MEM[addr] = v.
C18_Store ==
    [][ StoreStep
            => /\ Cell(memory', OperandAddress) = Stored
               /\ memory' = Store(memory, OperandAddress, Stored)
               /\ UNCHANGED <<status, accumulator, register_x, register_y,
                              stack_pointer>> ]_vars

\* LDA #$80; STA $01 has left MEM[0x01] = 0x80, the status as LDA set it.
C18_Witness ==
    /\ loaded = <<\hA9, \h80, \h85, \h01>> /\ steps = 2 /\ phase = "running"
    /\ Cell(memory, \h0001) = \h80 /\ accumulator = \h80
    /\ status = NEGATIV /\ program_counter = \h0604

\* The addressing mode the opcode table of the specification lists: the
\* source's table entry, but for LDY 0xBC, listed as absolute,X.
ListedMode(code) ==
    IF code = \hBC THEN "Absolute_X" ELSE opcode_table[code].mode

\* The 16-bit operand that follows the opcode fetched.
OperandWord ==
    Cell(memory, program_counter + 1) + 256 * Cell(memory, program_counter + 2)

\* C19: every opcode of the table is executed with the addressing mode
\* listed for it; LDY 0xBC loads Y from (read16(PC) + X) mod 0x10000.
C19_ListedModes ==
    [][ (Fetching /\ Fetched \in Populated /\ phase' # "panicked")
            => /\ opcode_table[Fetched].mode = ListedMode(Fetched)
               /\ Fetched = \hBC
                    => register_y' = Cell(memory, (OperandWord + register_x) % 65536)
      ]_vars

\* C20: for every accumulator value a, PHA; LDA #0; PLA ends with A = a,
\* Z = (a = 0), N = bit 7 of a, and SP as it was before the PHA. The run
\* has a in X, which the three instructions leave alone, and starts with
\* the stack pointer of a new CPU.
C20_PushPull ==
    (loaded = PushPullProgram /\ steps = 3)
        => /\ phase = "running"
           /\ accumulator = register_x
           /\ Status_contains(status, ZERO) <=> register_x = 0
           /\ Status_contains(status, NEGATIV) <=> Negative(register_x)
           /\ stack_pointer = new.stack_pointer

\* The three instructions have run with a = 0x80 and the status 0 at the
\* start: A is 0x80 again, N is set and Z, which LDA #0 had set, is reset.
C20_Witness ==
    /\ loaded = PushPullProgram /\ steps = 3 /\ phase = "running"
    /\ register_x = \h80 /\ accumulator = \h80
    /\ status = NEGATIV /\ stack_pointer = \h01FD
    /\ Cell(memory, \h01FD) = \h80

\* C21: for every status byte p and every flag-changing instruction in
\* between that does not touch the stack, PHP; <op>; PLP ends with P
\* bitwise equal to p. The run has p in Y, which the instructions leave
\* alone.
C21_StatusRoundTrip ==
    (loaded \in StatusPrograms /\ steps = 3)
        => /\ phase = "running"
           /\ status = register_y
           /\ stack_pointer = new.stack_pointer

\* PHP; SEC; PLP has run from the status 0x10, which SEC had made 0x11.
C21_Witness ==
    /\ loaded = <<\h08, \h38, \h28>> /\ steps = 3 /\ phase = "running"
    /\ register_y = BREAK /\ status = BREAK
    /\ Cell(memory, \h01FD) = BREAK

\* C22: for every address a in 0x0000..0xFFFF and every 16-bit value v,
\* mem_write_u16(a, v) stores the low byte of v at a and the high byte at
\* (a + 1) mod 0x10000, and mem_read_u16(a) then returns v, also for
\* a = 0xFFFF.
C22_WordRoundTrip ==
    [][ /\ called' = "mem_write_u16"
            => /\ phase' # "panicked"
               /\ memory' = Store(Store(memory, word'.address, word'.data % 256),
                                  (word'.address + 1) % 65536, word'.data \div 256)
        /\ (called = "mem_write_u16" /\ phase = "idle" /\ called' = "mem_read_u16"
                /\ word'.address = word.address)
            => /\ phase' # "panicked"
               /\ word'.returned = word.data ]_vars

\* The byte that follows the opcode fetched.
OperandByte == Cell(memory, program_counter + 1)

\* The 16-bit word whose low byte is at ptr and whose high byte is at
\* (ptr + 1) mod 256.
ZeroPageWord(ptr) == Cell(memory, ptr) + 256 * Cell(memory, (ptr + 1) % 256)

\* The operand address of the instruction fetched as C23 gives it, PC
\* being the address after the opcode byte.
ClaimedAddress ==
    LET mode == opcode_table[Fetched].mode IN
    CASE mode = "Immediate" -> program_counter + 1
      [] mode = "ZeroPage" -> OperandByte
      [] mode = "ZeroPage_X" -> (OperandByte + register_x) % 256
      [] mode = "Absolute" -> OperandWord
      [] mode = "Absolute_X" -> (OperandWord + register_x) % 65536
      [] mode = "Absolute_Y" -> (OperandWord + register_y) % 65536
      [] mode = "Indirect_X" -> ZeroPageWord((OperandByte + register_x) % 256)
      [] mode = "Indirect_Y" -> (ZeroPageWord(OperandByte) + register_y) % 65536

\* C23: get_operand_address returns the address the claim lists for each
\* mode and changes no register, flag or memory byte: LDA immediate loads
\* the byte at that address and changes no memory, and STA in each of its
\* modes changes the cell at that address and nothing else.
C23_OperandAddress ==
    [][ (Fetching /\ loaded \in AddressingPrograms /\ steps = 0
                  /\ phase' # "panicked")
            => /\ Fetched = \hA9
                    => /\ accumulator' = Cell(memory, ClaimedAddress)
                       /\ memory' = memory
               /\ Fetched # \hA9
                    => /\ memory' = Store(memory, ClaimedAddress, accumulator)
                       /\ UNCHANGED <<accumulator, status>>
               /\ UNCHANGED <<register_x, register_y, stack_pointer>> ]_vars

\* STA ($FE,X) with X = 1: the pointer is at 0xFF and 0x00, the address
\* 0x34FF.
C23_Witness ==
    /\ loaded = <<\h81, \hFE>> /\ steps = 1 /\ phase = "running"
    /\ register_x = \h01 /\ register_y = \h00
    /\ Cell(memory, \h34FF) = \hA5 /\ Cell(memory, \h56FF) = \h00

\* The register the counting program loaded counts in.
Counted == IF loaded[1] \in {\hE8, \hCA} THEN register_x ELSE register_y

\* C24: INX, INY, DEX, DEY wrap within 8 bits: executed 256 times in a
\* row from any value the register has its starting value again, which
\* the run keeps in A, with Z/N matching it, and 260 INX from X = 0 leave
\* X = 4.
C24_WrapsAround ==
    loaded \in CountingPrograms
        => /\ steps = 256
                => /\ phase = "running"
                   /\ Counted = accumulator
                   /\ Status_contains(status, ZERO) <=> accumulator = 0
                   /\ Status_contains(status, NEGATIV) <=> Negative(accumulator)
           /\ (steps = Repetitions /\ accumulator = 0)
                => /\ phase = "running"
                   /\ Counted = IF loaded[1] \in {\hE8, \hC8} THEN 4 ELSE 252

\* 260 INX from X = 0 and the BRK after them have run: X = 4.
C24_Witness ==
    /\ loaded \in CountingPrograms /\ loaded[1] = \hE8
    /\ steps = Repetitions + 1 /\ phase = "halted"
    /\ accumulator = 0 /\ register_x = 4 /\ register_y = 0

\* The flag CLC, SEC, CLD, SED, CLI, SEI or CLV names.
NamedFlag ==
    CASE Fetched \in {\h18, \h38} -> CARRY
      [] Fetched \in {\hD8, \hF8} -> DECIMAL_MODE
      [] Fetched \in {\h58, \h78} -> INTERRUPT_DISABLE
      [] Fetched = \hB8 -> OVERFLOW

\* C25: each of CLC, SEC, CLD, SED, CLI, SEI, CLV changes only its own
\* flag bit to the cleared or set value: the other seven bits of P, A, X,
\* Y, SP and memory are unchanged and PC advances by exactly 1; NOP changes
\* nothing but PC, which advances by 1.
C25_FlagInstructions ==
    [][ /\ (Fetching /\ Fetched \in {\h18, \hD8, \h58, \hB8})
            => /\ status' = BitAnd(status, 255 - NamedFlag)
               /\ UNCHANGED <<accumulator, register_x, register_y, stack_pointer,
                              memory>>
               /\ program_counter' = program_counter + 1
        /\ (Fetching /\ Fetched \in {\h38, \hF8, \h78})
            => /\ status' = BitOr(status, NamedFlag)
               /\ UNCHANGED <<accumulator, register_x, register_y, stack_pointer,
                              memory>>
               /\ program_counter' = program_counter + 1
        /\ (Fetching /\ Fetched = \hEA)
            => /\ RegistersAndMemoryUnchanged
               /\ program_counter' = program_counter + 1 ]_vars

\* CLV has run from the status 0xFF with A = 0x80, X = 0xFF, Y = 0x01.
C25_Witness ==
    /\ loaded = <<\hB8>> /\ steps = 1 /\ phase = "running"
    /\ status = \hBF /\ program_counter = \h0601
    /\ accumulator = \h80 /\ register_x = \hFF /\ register_y = \h01

\* C26: TXS sets SP to 0x0100 + X and changes no flag bit; TSX sets X to
\* the low byte of SP and sets Z/N from that byte.
C26_Transfers ==
    [][ /\ (Fetching /\ Fetched = \h9A)
            => /\ stack_pointer' = \h0100 + register_x
               /\ status' = status
               /\ UNCHANGED <<accumulator, register_x, register_y, memory>>
        /\ (Fetching /\ Fetched = \hBA)
            => /\ register_x' = stack_pointer % 256
               /\ Status_contains(status', ZERO) <=> stack_pointer % 256 = 0
               /\ Status_contains(status', NEGATIV) <=> Negative(stack_pointer % 256)
               /\ BitAnd(status', 255 - ZERO - NEGATIV)
                    = BitAnd(status, 255 - ZERO - NEGATIV)
               /\ UNCHANGED <<accumulator, register_y, stack_pointer, memory>> ]_vars

\* TXS with X = 0x69 has left SP = 0x0169, LDX #$00 has cleared X and TSX
\* has set it to 0x69 again, Z and N reset.
C26_Witness ==
    /\ loaded = TransferProgram /\ steps = 3 /\ phase = "running"
    /\ stack_pointer = \h0169 /\ register_x = \h69
    /\ status = \h7D

\* The iteration executes LSR, ROL or ROR to completion.
ShiftRightOrRotateStep ==
    /\ Fetching /\ Fetched \in Populated
    /\ opcode_table[Fetched].mnemonic \in {"LSR", "ROL", "ROR"}
    /\ phase' # "panicked"

\* The byte C27 gives as the result of the instruction fetched.
ClaimedResult ==
    CASE opcode_table[Fetched].mnemonic = "LSR" -> ShiftOperand \div 2
      [] opcode_table[Fetched].mnemonic = "ROL" -> ((ShiftOperand * 2) % 256) + CarryIn
      [] opcode_table[Fetched].mnemonic = "ROR" -> (ShiftOperand \div 2) + 128 * CarryIn

\* C27: LSR, ROL and ROR operate on A in implied mode and otherwise on the
\* memory byte at the effective address, writing the result back to that
\* same operand: LSR gives old >> 1 with C' = old bit 0, ROL gives
\* ((old << 1) mod 256) | old C with C' = old bit 7, ROR gives
\* (old >> 1) | (old C << 7) with C' = old bit 0; in memory modes A is
\* unchanged.
C27_ShiftsAndRotates ==
    [][ ShiftRightOrRotateStep
            => /\ opcode_table[Fetched].mode = "None"
                    => /\ accumulator' = ClaimedResult
                       /\ memory' = memory
               /\ opcode_table[Fetched].mode # "None"
                    => /\ memory' = Store(memory, OperandAddress, ClaimedResult)
                       /\ accumulator' = accumulator
               /\ Status_contains(status', CARRY)
                    <=> IF opcode_table[Fetched].mnemonic = "ROL"
                        THEN Negative(ShiftOperand)
                        ELSE ShiftOperand % 2 = 1 ]_vars

\* ROR $01 with MEM[0x01] = 0x01, the carry set and A = 0x80 has left
\* MEM[0x01] = 0x80 and the carry set.
C27_Witness ==
    /\ loaded = <<\h66, \h01>> /\ steps = 1 /\ phase = "running"
    /\ Cell(memory, \h0001) = \h80 /\ accumulator = \h80
    /\ Status_contains(status, CARRY)

\* C28: with the no-op callback every executed instruction strictly
\* increases PC and no iteration lowers it, so every run ends after
\* finitely many instructions, by halting at a BRK or by a fatal abort.
C28_RunEnds ==
    /\ [][ phase = "running"
              => /\ program_counter' >= program_counter
                 /\ phase' # "panicked" => program_counter' > program_counter ]_vars
    /\ phase = "running" ~> phase \in {"halted", "panicked"}

\* run() from the reset vector 0xFFFE: the BRK there has halted the run
\* with PC = 0xFFFF.
C28_Witness ==
    /\ called = "run" /\ phase = "halted" /\ steps = 1
    /\ program_counter = \hFFFF /\ word.data = \hFFFE

\* C29: after ROL or ROR with a memory operand, Z is set exactly when the
\* accumulator is zero, whatever the rotated byte is, N is bit 7 of the
\* rotated byte and C the bit rotated out; with A = 0, C = 1 and the memory
\* byte 0xF0 (ROL) or 0x0F (ROR), the byte becomes 0xE1 / 0x87 and
\* P = N | Z | C.
C29_RotateMemoryFlags ==
    [][ (ShiftRightOrRotateStep /\ RotatesMemory)
            => /\ Status_contains(status', ZERO) <=> accumulator' = 0
               /\ Status_contains(status', NEGATIV)
                    <=> Negative(Cell(memory', OperandAddress))
               /\ Status_contains(status', CARRY)
                    <=> IF opcode_table[Fetched].mnemonic = "ROL"
                        THEN Negative(OperandValue)
                        ELSE OperandValue % 2 = 1
               /\ (accumulator = 0 /\ status = CARRY
                      /\ OperandValue = (IF opcode_table[Fetched].mnemonic = "ROL"
                                         THEN \hF0 ELSE \h0F))
                    => /\ Cell(memory', OperandAddress)
                            = (IF opcode_table[Fetched].mnemonic = "ROL"
                               THEN \hE1 ELSE \h87)
                       /\ status' = BitOr(NEGATIV, BitOr(ZERO, CARRY)) ]_vars

\* ROL $01 with A = 0, the carry set and MEM[0x01] = 0xF0 has left
\* MEM[0x01] = 0xE1 and P = N | Z | C: Z is set and the rotated byte is not
\* zero.
C29_Witness ==
    /\ loaded = <<\h26, \h01>> /\ steps = 1 /\ phase = "running"
    /\ accumulator = 0
    /\ Cell(memory, \h0001) = \hE1
    /\ status = \h83

\* C30: ASL with a memory operand leaves (MEM[effective address] << 1)
\* mod 256 in the accumulator, for every prior value of the accumulator:
\* MEM[0x00] = 0x08 and ASL $00 give A = 0x10.
C30_AslMemoryToAccumulator ==
    [][ (AslStep /\ opcode_table[Fetched].mode # "None")
            => /\ accumulator' = (OperandValue * 2) % 256
               /\ (Fetched = \h06 /\ OperandAddress = \h0000 /\ OperandValue = \h08)
                    => accumulator' = \h10 ]_vars

\* ASL $00 with MEM[0x00] = 0x08 and A = 0xFF before it (X holds that value
\* still) has left A = 0x10 and the memory byte as it was.
C30_Witness ==
    /\ loaded = <<\h06, \h00>> /\ steps = 1 /\ phase = "running"
    /\ register_x = \hFF
    /\ accumulator = \h10
    /\ Cell(memory, \h0000) = \h08

RegistersBefore ==
    { <<\h05, \h06, \h07, \h00, \h01FD, \h0008>>,
      <<\hFF, \hFF, \hFF, \hFF, \h0100, \hFFFF>>,
      <<\h80, \h01, \h00, \h41, \hFFFF, \h0600>> }

\* The CPU of the build oc with the registers r and this CPU's memory.
WithRegisters(oc, r) ==
    [Self(oc) EXCEPT !.accumulator = r[1], !.register_x = r[2], !.register_y = r[3],
                     !.status = r[4], !.stack_pointer = r[5], !.program_counter = r[6]]

\* C32: the outcome of load_and_run does not depend on the registers before
\* the call: CPUs with the same memory and different A, X, Y, P, SP and PC
\* end load_and_run of the same program with the same registers, flags, SP,
\* PC and memory, or with the same abort.
C32_RegistersBeforeDoNotMatter ==
    [][ (called # "load_and_run" /\ called' = "load_and_run")
            => \A oc \in BOOLEAN, r \in RegistersBefore :
                 /\ load_and_reset(WithRegisters(oc, r), loaded')
                        = load_and_reset(Self(oc), loaded')
                 /\ run(load_and_reset(WithRegisters(oc, r), loaded'), MaxSteps)
                        = run(load_and_reset(Self(oc), loaded'), MaxSteps) ]_vars

\* load_and_run of LDA #$80; STA $01 has executed both instructions: X is
\* 0, only N is set and MEM[0x01] = 0x80, as from every other choice of
\* registers before the call.
C32_Witness ==
    /\ called = "load_and_run" /\ steps = 2 /\ phase = "running"
    /\ loaded = <<\hA9, \h80, \h85, \h01>>
    /\ accumulator = \h80 /\ register_x = 0 /\ register_y = 0
    /\ status = NEGATIV /\ stack_pointer = \h01FD /\ program_counter = \h0604
    /\ Cell(memory, \h0001) = \h80

\* The number of instructions between two pushes or pulls of the stack
\* program loaded, the number k of its pushes, and the i-th value pushed.
Between == IF loaded[4] \in {\hA9, \h68} THEN 0 ELSE 1
Depth == Len(loaded) \div (4 + 2 * Between)
Pushed(i) == loaded[(3 + Between) * (i - 1) + 2]

\* The steps of the stack program loaded after which its j-th PLA has run.
Pulled(j) == (2 + Between) * Depth + (1 + Between) * (j - 1) + 1

\* C33: the stack is last-in first-out: from reset (SP = 0x01FD), for any
\* k <= 253 and values v1..vk pushed by k PHA, the next k PLA return
\* vk, ..., v1 in that order and SP is 0x01FD again after them;
\* instructions other than PHA, PHP, PLA, PLP and TXS do not change SP.
C33_LastInFirstOut ==
    /\ [] ( (loaded \in StackPrograms /\ Depth <= 253 /\ called = "load_and_run")
              => /\ phase # "panicked"
                 /\ steps = 0 => stack_pointer = \h01FD
                 /\ \A j \in 1..Depth :
                       steps = Pulled(j)
                         => /\ accumulator = Pushed(Depth - j + 1)
                            /\ stack_pointer = \h01FD - Depth + j )
    /\ [][ ( /\ Fetching /\ Fetched \in Populated /\ phase' # "panicked"
             /\ opcode_table[Fetched].mnemonic \notin {"PHA", "PHP", "PLA", "PLP", "TXS"} )
            => stack_pointer' = stack_pointer ]_vars

\* 253 values 0xFE, 0xFF, 0x00, ... have been pushed, a NOP after each, and
\* all of them pulled: the last PLA has returned the first value and SP is
\* 0x01FD.
C33_Witness ==
    /\ loaded \in StackPrograms /\ Depth = 253 /\ Between = 1
    /\ loaded[4] = \hEA
    /\ steps = Pulled(253) /\ phase = "running"
    /\ accumulator = \hFE /\ stack_pointer = \h01FD
    /\ Cell(memory, \h0101) = (\hFE + 252) % 256

\* C34: no instruction of the table passes the mode None to
\* get_operand_address, so no run aborts with "Wrong addressing mode!";
\* get_operand_address aborts in that way when called with the mode None,
\* and with no other mode.
C34_NoWrongAddressingMode ==
    /\ panic # WrongAddressingMode
    /\ \A mode \in {"Immediate", "ZeroPage", "ZeroPage_X", "Absolute", "Absolute_X",
                     "Absolute_Y", "Indirect_X", "Indirect_Y", "None"} :
          get_operand_address(Self(FALSE), mode).panic = WrongAddressingMode
              <=> mode = "None"

\* ASL A, an instruction of mode None whose handler has a branch that
\* calls get_operand_address, has run without an abort.
C34_Witness ==
    /\ loaded = <<\h0A>> /\ steps = 1 /\ phase = "running"
    /\ called = "load_and_run"
    /\ opcode_table[\h0A].mode = "None"
    /\ program_counter = \h0601 /\ panic = NoPanic

====
